---- MODULE Spec2Model ----
(***************************************************************************)
(* State-machine model of the interaction engine of src/src/main.js       *)
(* (class MrBeanGame): the challenge state machine, the dialogue element, *)
(* the 'e' key interaction with its freeze timers, and the NPC wander AI. *)
(*                                                                         *)
(* Lengths are fixed-point integers: 1 world unit = 1000 (Milli).          *)
(* Headings are multiples of 45 degrees (0..7), Math.cos/Math.sin are the  *)
(* table CosMilli / SinMilli, Math.atan2 is rounded to the nearest         *)
(* multiple of 45 degrees (Atan2Oct).  The y coordinate of the player and  *)
(* of every NPC is 0 throughout the program, so positions are <<x, z>>.    *)
(***************************************************************************)
EXTENDS Integers, Sequences, FiniteSets, TLC

VARIABLES
    challenges,         \* this.challenges: id -> [completed, steps]
    activeChallenge,    \* this.activeChallenge: a challenge id, or Null
    playerPos,          \* this.player.position
    npcPos,             \* npc.position, per NPC
    walkDirection,      \* npc.userData.walkDirection (main) / npc.walkDirection
    userDataWalkSpeed,  \* npc.userData.walkSpeed, per NPC
    walkSpeed,          \* npc.walkSpeed, per NPC
    timers,             \* pending setTimeout callbacks, in scheduling order
    dialogDisplay,      \* this.dialogElement.style.display = 'block'
    chatInputDisplay,   \* this.chatInput.style.display = 'block'
    dialogName,         \* this.dialogName.textContent
    dialogMessage,      \* this.dialogMessage.textContent
    currentNPC,         \* this.currentNPC: the object last given to showDialog
    npcTicks,           \* number of updateNPCsWithCulling calls so far
    constructedSpeed,   \* history: npc walk speed as set at construction
    discarded,          \* history: challenge whose progress a switch last reset
    rotationY,          \* npc.rotation.y, per NPC
    playerRotation,     \* this.player.rotation.y
    doorIsOpen,         \* houseGroup.doorData.isOpen, per house
    doorRotation,       \* rotation.y of the house's 'door' mesh, in degrees
    animations,         \* running animateDoor loops, in starting order
    finishedStart,      \* history: startRotation of the door's last finished
                        \* swing that began while another was running
    phase,              \* "loading", then "running" or "failed" (initialize)
    containerExists,    \* document.getElementById('game-container') # null
    errorVisible,       \* the 'Error loading game' text is in the page
    engaged,            \* history: NPC of the last 'e' press still on display
    handled,            \* history: branch the last 'e' press took
    trees,              \* tree.position of the park's trees, in creation order
    playerTicks,        \* number of updatePlayer calls so far
    canMove,            \* history: canMove at the end of the last updatePlayer
    calls,              \* history: updates called since animate() last asked
                        \* for a frame, in calling order
    frameCount,         \* this.frameCount
    camera,             \* this.camera: position (x, z) and heading
    frustum,            \* this.frustum: its planes
    visible             \* object.visible, per scene object

vars == <<challenges, activeChallenge, playerPos, npcPos, walkDirection,
          userDataWalkSpeed, walkSpeed, timers, dialogDisplay,
          chatInputDisplay, dialogName, dialogMessage, currentNPC, npcTicks,
          constructedSpeed, discarded, rotationY, playerRotation,
          doorIsOpen, doorRotation, animations, finishedStart, phase,
          containerExists,
          errorVisible, engaged, handled, trees, playerTicks, canMove,
          calls, frameCount, camera, frustum, visible>>

challengeVars == <<challenges, activeChallenge, discarded>>
dialogVars == <<dialogDisplay, chatInputDisplay, dialogName, dialogMessage,
                currentNPC>>
npcVars == <<npcPos, walkDirection, userDataWalkSpeed, walkSpeed,
             constructedSpeed, rotationY>>
doorVars == <<doorIsOpen, doorRotation, animations, finishedStart>>
startupVars == <<phase, containerExists, errorVisible>>
frameVars == <<frameCount, frustum, visible>>

----------------------------------------------------------------------------
(* Bounds of the model *)

MaxTimers == 2      \* pending setTimeout callbacks (SpecNPC)
MaxQuestTimers == 1 \* pending setTimeout callbacks (Spec)
MaxTicks == 2       \* updateNPCsWithCulling calls explored
MaxDraws == 2       \* distinct Math.random() outcomes explored per draw
MaxAnimations == 2  \* door swings running at once
MaxPlayerTicks == 2 \* updatePlayer calls explored
MaxWanderTicks == 3 \* updateNPCsWithCulling calls explored (SpecWander)

----------------------------------------------------------------------------
(* Program constants *)

Milli == 1000
Null == 0                       \* null (no active challenge)
Undefined == -1                 \* a property that was never assigned
InteractionDistance == 2        \* this.interactionDistance
FreezeDelay == 30000            \* setTimeout(..., 30000)
MainWalkSpeedMilli == 10        \* userData.walkSpeed: 0.01
MaxWanderDistance == 5          \* userData.maxWanderDistance
CullDistance == 50              \* distanceTo(playerPos) <= 50
SoftBoundary == 40              \* const maxDistance = 40
NearCarDistance == 2
CityCenterDistance == 10
DepartmentStoreDistance == 5
BenchDistance == 2
MessageDelay == 2000            \* showInteractionMessage: setTimeout(..., 2000)
DoorOpenAngle == 90             \* Math.PI / 2, in degrees
DoorAjar == 45                  \* any angle strictly between 0 and PI / 2
AnimationDuration == 1000       \* animateDoor: const duration = 1000

MainOrder == <<"Mrs. Wicket", "Irma Gobb", "Rupert">>
BackgroundOrder == <<"npc0">>
MainNPCs == {MainOrder[i] : i \in 1..Len(MainOrder)}
BackgroundNPCs == {BackgroundOrder[i] : i \in 1..Len(BackgroundOrder)}
NPCs == MainNPCs \cup BackgroundNPCs

\* new THREE.Group() gives every object userData = {}, which is truthy;
\* createMainNPC replaces it by a populated record.
HasUserData(n) == n \in NPCs
IsMainNPC(n) == n \in MainNPCs
\* npc.userData.name: undefined for a background NPC
NameOf(n) == IF n \in MainNPCs THEN n ELSE "undefined"

OriginalPosition(n) ==
    CASE n = "Mrs. Wicket" -> <<-42000, -32000>>
      [] n = "Irma Gobb"   -> <<25000, -25000>>
      [] n = "Rupert"      -> <<-34000, -32000>>

PlayerStart == <<-38000, -28000>>
CarPosition == <<-38000, -28000>>       \* new THREE.Vector3(-38, 0, -28)
CityCenter == <<30000, -30000>>         \* new THREE.Vector3(30, 0, -30)

\* this.scene.children as far as checkChallengeProgress reads them: the
\* position and the isBench / isDepartmentStore flags.  Nothing in the
\* program sets isBench; the park benches are children of the park group.
SceneChildren ==
    { [name |-> "arbourRoad", pos |-> <<-40000, -30000>>,
       isBench |-> FALSE, isDepartmentStore |-> FALSE],
      [name |-> "departmentStore", pos |-> <<30000, -30000>>,
       isBench |-> FALSE, isDepartmentStore |-> TRUE],
      [name |-> "shopStreet", pos |-> <<30000, 0>>,
       isBench |-> FALSE, isDepartmentStore |-> FALSE],
      [name |-> "park", pos |-> <<0, 30000>>,
       isBench |-> FALSE, isDepartmentStore |-> FALSE],
      [name |-> "beansCar", pos |-> <<-38000, -28000>>,
       isBench |-> FALSE, isDepartmentStore |-> FALSE] }

\* The houses of createArbourRoad, in the order scene.traverse meets them.
DoorOrder == <<"beanHouse", "bruiserHouse", "houseM2", "houseM1", "houseP2">>
Doors == {DoorOrder[i] : i \in 1..Len(DoorOrder)}

\* object.position of a house: its place within the street group
HousePosition(d) ==
    CASE d = "beanHouse"    -> <<0, 0>>
      [] d = "bruiserHouse" -> <<8000, 0>>
      [] d = "houseM2"      -> <<-16000, 0>>
      [] d = "houseM1"      -> <<-8000, 0>>
      [] d = "houseP2"      -> <<16000, 0>>

\* doorData.position and doorData.type
DoorDataPosition == <<0, 3000>>
DoorType(d) == IF d = "beanHouse" THEN "Mr. Bean's House" ELSE "House"

\* doorWorldPos = object.position.clone().add(object.doorData.position)
DoorWorldPos(d) ==
    << HousePosition(d)[1] + DoorDataPosition[1],
       HousePosition(d)[2] + DoorDataPosition[2] >>

----------------------------------------------------------------------------
(* Geometry *)

Abs(x) == IF x < 0 THEN -x ELSE x

\* Squared distance as <<whole, rest>>: whole * 10^6 + rest, 0 <= rest < 10^6
\* (two limbs keep every intermediate below 2^31).
DistSq(p, q) ==
    LET dx == Abs(p[1] - q[1])
        dz == Abs(p[2] - q[2])
        ax == dx \div Milli
        bx == dx % Milli
        az == dz \div Milli
        bz == dz % Milli
        low == 2 * (ax * bx + az * bz) * Milli + bx * bx + bz * bz
    IN  << ax * ax + az * az + low \div (Milli * Milli), low % (Milli * Milli) >>

PairLess(a, b) == a[1] < b[1] \/ (a[1] = b[1] /\ a[2] < b[2])

\* p.distanceTo(q) < r and <= r, r in whole world units
DistanceLess(p, q, r) == PairLess(DistSq(p, q), <<r * r, 0>>)
DistanceLessEq(p, q, r) == ~PairLess(<<r * r, 0>>, DistSq(p, q))

CosMilli(d) == <<1000, 707, 0, -707, -1000, -707, 0, 707>>[(d % 8) + 1]
SinMilli(d) == CosMilli(d + 6)

\* x * y / 1000 rounded to the nearest integer, symmetric about 0
MulMilli(x, y) ==
    LET v == x * y
    IN  IF v >= 0 THEN (v + 500) \div Milli ELSE -((-v + 500) \div Milli)

\* Math.atan2(dz, dx) as the nearest multiple of 45 degrees, in 0..7
\* (tan 22.5 deg = 0.414, tan 67.5 deg = 2.414)
Atan2Oct(dz, dx) ==
    LET ax == Abs(dx)
        az == Abs(dz)
        q == IF az * 1000 <= ax * 414 THEN 0
             ELSE IF az * 414 >= ax * 1000 THEN 2 ELSE 1
    IN  IF dx >= 0 /\ dz >= 0 THEN q
        ELSE IF dx < 0 /\ dz >= 0 THEN 4 - q
        ELSE IF dx < 0 THEN 4 + q
        ELSE (8 - q) % 8

\* Squared distance of two points <<x, y, z>>, in the two limbs of DistSq
DistSq3(p, q) ==
    LET dx == Abs(p[1] - q[1])
        dy == Abs(p[2] - q[2])
        dz == Abs(p[3] - q[3])
        ax == dx \div Milli
        bx == dx % Milli
        ay == dy \div Milli
        by == dy % Milli
        az == dz \div Milli
        bz == dz % Milli
        low == 2 * (ax * bx + ay * by + az * bz) * Milli
                  + bx * bx + by * by + bz * bz
    IN  << ax * ax + ay * ay + az * az + low \div (Milli * Milli),
           low % (Milli * Milli) >>

\* The point <<x, y, z>> at height y above the ground point <<x, z>>
Raised(p, y) == <<p[1], y, p[2]>>

----------------------------------------------------------------------------
(* The camera and the view frustum.  The third-person offset is the one    *)
(* in use: the '0' key that swaps it is not pressed.  The frustum is kept  *)
(* as its horizontal section: the near and far planes and the two side     *)
(* planes, each [normal, constant] with the normal a unit vector times     *)
(* 1000; the window is taken 1.3 times as wide as high, which puts the     *)
(* side planes 45 degrees off the viewing direction (vertical field of     *)
(* view 75 degrees).                                                       *)

CameraHeight == 3000            \* thirdPersonCameraOffset.y = 3
CameraBack == -6000             \* thirdPersonCameraOffset.z = -6
SmoothFactor == 150             \* this.smoothFactor = 0.15
CameraNear == 100               \* PerspectiveCamera(75, aspect, 0.1, 1000)
CameraFar == 1000000            \* PerspectiveCamera(75, aspect, 0.1, 1000)
NearThreshold == 3              \* if (distanceToCamera < 3)
FarThreshold == 60              \* if (distanceToPlayer > 60)
SphereFactor == 1200            \* sphere.radius *= 1.2
LargeScale == 5000              \* object.scale.length() > 5

\* camera.lookAt(point above the player): the heading from the camera to
\* the player, on the grid of eight
LookAt(position, player) ==
    Atan2Oct(player[1] - position[1], player[2] - position[2])

\* targetPosition: the player's position plus cameraOffset turned about the
\* y axis by the player's heading
CameraTargetPosition(player, rotation) ==
    << player[1] + MulMilli(CameraBack, SinMilli(rotation)),
       player[2] + MulMilli(CameraBack, CosMilli(rotation)) >>

\* The camera updateCamera settles on behind a player who stands still
CameraBehind(player, rotation) ==
    [position |-> CameraTargetPosition(player, rotation),
     heading |-> LookAt(CameraTargetPosition(player, rotation), player)]

\* updateCamera(): the position moves smoothFactor of the way to the
\* target, then the camera is turned to the player
UpdateCamera(cam, player, rotation) ==
    LET target == CameraTargetPosition(player, rotation)
        position ==
            << cam.position[1]
                  + MulMilli(target[1] - cam.position[1], SmoothFactor),
               cam.position[2]
                  + MulMilli(target[2] - cam.position[2], SmoothFactor) >>
    IN  [position |-> position, heading |-> LookAt(position, player)]

\* new THREE.Frustum(): every plane has normal (1, 0, 0) and constant 0
NewFrustum == [i \in 1..4 |-> [normal |-> <<1000, 0>>, constant |-> 0]]

\* plane.distanceToPoint(point)
DistanceToPoint(plane, point) ==
    MulMilli(plane.normal[1], point[1]) + MulMilli(plane.normal[2], point[2])
        + plane.constant

\* The plane with the given unit normal (heading h) through the point that
\* lies `ahead` along the normal from `from`
PlaneThrough(h, from, ahead) ==
    LET normal == <<SinMilli(h), CosMilli(h)>>
    IN  [normal |-> normal,
         constant |-> -(MulMilli(normal[1], from[1])
                        + MulMilli(normal[2], from[2])) - ahead]

\* frustum.setFromProjectionMatrix(projectionMatrix * matrixWorldInverse):
\* the side planes, the far plane and the near plane of camera cam
SetFromProjectionMatrix(cam) ==
    << PlaneThrough(cam.heading + 1, cam.position, 0),
       PlaneThrough(cam.heading + 7, cam.position, 0),
       [normal |-> << -SinMilli(cam.heading), -CosMilli(cam.heading) >>,
        constant |-> MulMilli(SinMilli(cam.heading), cam.position[1])
                     + MulMilli(CosMilli(cam.heading), cam.position[2])
                     + CameraFar],
       PlaneThrough(cam.heading, cam.position, CameraNear) >>

\* frustum.intersectsSphere(sphere): no plane has the centre further than
\* the radius behind it
IntersectsSphere(planes, sphere) ==
    \A i \in DOMAIN planes :
        DistanceToPoint(planes[i], <<sphere.center[1], sphere.center[3]>>)
            >= -sphere.radius

----------------------------------------------------------------------------
(* The scene as scene.traverse walks it, as far as updateVisibility reads  *)
(* it: the player group and its torso mesh, Mr. Bean's house inside the    *)
(* street group, the NPC groups, and the sun light.                        *)

ArbourRoadPosition == <<-40000, -30000>>    \* arbourRoad.position.set(-40, 0, -30)
TorsoHeight == 1100             \* torso.position.y = 1.1
TorsoRadius == 451              \* half the diagonal of BoxGeometry(0.45, 0.7, 0.35)
NpcCentreHeight == 955          \* legs from y = 0.25, hair to y = 1.66
NpcRadius == 785                \* half the diagonal of 0.62 x 1.41 x 0.3
HouseCentreHeight == 4000       \* the house's box spans y = 0 .. 8
HouseRadius == 5831             \* half the diagonal of 6 x 8 x 6
DefaultScaleLength == 1732      \* |(1, 1, 1)|: no traversed object is rescaled
                                \* beyond the main NPCs' 0.9 .. 1.1

SceneObjects == {"player", "torso", "beanHouse", "sunLight"} \cup NPCs

\* object.isMesh || object.isGroup
IsMeshOrGroup(o) == o # "sunLight"

\* object.isBuilding
IsBuilding(o) == o = "beanHouse"

\* object.scale.length()
ScaleLength(o) == DefaultScaleLength

\* object.position: the place within the parent
ObjectPosition(o, player, npcs) ==
    CASE o = "player"    -> Raised(player, 0)
      [] o = "torso"     -> <<0, TorsoHeight, 0>>
      [] o = "beanHouse" -> Raised(HousePosition("beanHouse"), 0)
      [] o = "sunLight"  -> <<50000, 100000, 50000>>
      [] OTHER           -> Raised(npcs[o], 0)

\* The object's place in the world: its position moved by that of its
\* parent, the player group for the torso and the street group for the house
WorldPosition(o, player, npcs) ==
    LET parent == CASE o = "torso"     -> Raised(player, 0)
                    [] o = "beanHouse" -> Raised(ArbourRoadPosition, 0)
                    [] OTHER           -> <<0, 0, 0>>
        own == ObjectPosition(o, player, npcs)
    IN  <<parent[1] + own[1], parent[2] + own[2], parent[3] + own[3]>>

\* new Box3().setFromObject(object).getBoundingSphere(sphere): the sphere
\* about the object's box in the world
BoundingSphere(o, player, npcs) ==
    LET at == WorldPosition(o, player, npcs) IN
    CASE o = "torso"     -> [center |-> at, radius |-> TorsoRadius]
      [] o = "beanHouse" ->
            [center |-> <<at[1], at[2] + HouseCentreHeight, at[3]>>,
             radius |-> HouseRadius]
      [] OTHER           ->
            [center |-> <<at[1], at[2] + NpcCentreHeight, at[3]>>,
             radius |-> NpcRadius]

\* a.distanceTo(b) < r and > r for points <<x, y, z>>, r in whole units
Distance3Less(p, q, r) == PairLess(DistSq3(p, q), <<r * r, 0>>)
Distance3Greater(p, q, r) == PairLess(<<r * r, 0>>, DistSq3(p, q))

\* The flag the traversal callback of updateVisibility leaves on object o
VisibleAfter(o, was, player, cam, planes, npcs) ==
    LET position == ObjectPosition(o, player, npcs)
        sphere == BoundingSphere(o, player, npcs)
    IN
    IF ~IsMeshOrGroup(o) \/ o = "player" THEN was
    ELSE IF Distance3Less(position, Raised(cam.position, CameraHeight),
                          NearThreshold)
    THEN TRUE
    ELSE IF Distance3Greater(position, Raised(player, 0), FarThreshold)
    THEN FALSE
    ELSE IF IsBuilding(o) \/ ScaleLength(o) > LargeScale THEN TRUE
    ELSE IntersectsSphere(planes,
            [sphere EXCEPT !.radius = MulMilli(sphere.radius, SphereFactor)])

----------------------------------------------------------------------------
(* The challenge catalog (initializeChallenges) *)

ChallengeIds == {1, 2, 3}
StepIndexes == {0, 1, 2}

Description(c) ==
    CASE c = 1 -> "Your beloved Teddy has gone missing! Mrs. Wicket might have seen it last."
      [] c = 2 -> "You're late for your dentist appointment! But your car won't start..."
      [] c = 3 -> "You need to buy a Christmas present for Irma, but you're on a budget!"

Reward(c) ==
    CASE c = 1 -> "You found Teddy! He's happy to be back with you."
      [] c = 2 -> "You made it to the dentist! Only 30 minutes late..."
      [] c = 3 -> "You found a lovely gift that Irma will surely appreciate!"

AlreadyCompletedNotice == "You've already completed this challenge!"
WellDoneNotice == "Well done! You've completed the challenge!"

InitialChallenges ==
    [c \in ChallengeIds |->
        [completed |-> FALSE, steps |-> [i \in StepIndexes |-> FALSE]]]

----------------------------------------------------------------------------
(* Dialogue *)

MainDialogs(n) ==
    CASE n = "Mrs. Wicket" ->
            << "Mr. Bean! Your rent is due!",
               "Have you seen my Scrapper? That cat's always wandering off...",
               "Keep the noise down up there!",
               "I heard crashes from your flat again last night!",
               "Don't forget to clean the stairs this week, it's your turn!" >>
      [] n = "Irma Gobb" ->
            << "Oh, Mr. Bean! I've been waiting for our date!",
               "I found this lovely new cafe we could try...",
               "Have you remembered it's my birthday next week?",
               "I saw this beautiful teddy bear in the shop window...",
               "Shall we go to the park together?" >>
      [] n = "Rupert" ->
            << "Keep that racket down, Bean!",
               "What are you up to now?",
               "Stay away from my garden!",
               "I saw you sneaking around last night!",
               "Not another one of your silly schemes!" >>

GenericDialogs ==
    << "Hello there! Lovely weather we're having.",
       "Good day! Have you seen Mr. Bean's teddy?",
       "Mind the road, dear! The traffic's been terrible.",
       "Fancy a cup of tea? The cafe's just around the corner.",
       "I heard there's a sale at the department store today!",
       "Lovely day for a walk in the park, isn't it?",
       "Have you tried the new bakery? Their scones are divine!" >>

\* The objects handed to showDialog: an NPC of the scene, or an object
\* literal { userData: { name, dialogs } } (which has no isMainNPC).
NpcObject(n) ==
    [npc |-> n, name |-> NameOf(n), isMainNPC |-> IsMainNPC(n),
     dialogs |-> IF IsMainNPC(n) THEN MainDialogs(n) ELSE << >>]
Literal(name, dialogs) ==
    [npc |-> "", name |-> name, isMainNPC |-> FALSE, dialogs |-> dialogs]
NoNPC == [npc |-> "", name |-> "", isMainNPC |-> FALSE, dialogs |-> << >>]

\* The pool showDialog draws from, and the draws Math.floor(Math.random()
\* * pool.length) can give.
DialogPool(obj) == IF obj.isMainNPC THEN obj.dialogs ELSE GenericDialogs
Min(a, b) == IF a < b THEN a ELSE b
Draws(obj) == 0..(Min(Len(DialogPool(obj)), MaxDraws) - 1)

\* showDialog(npc) with random draw k; this.dialogElement exists from
\* setupInteraction on, so the early return is never taken.
ShowDialog(obj, k) ==
    [display |-> TRUE,
     chatInput |-> TRUE,
     name |-> IF obj.isMainNPC THEN obj.name ELSE "Citizen",
     message |-> DialogPool(obj)[k + 1],
     current |-> obj]

\* hideDialog() applied to dialogue record d
HideDialog(d) ==
    [d EXCEPT !.display = FALSE, !.chatInput = FALSE, !.current = NoNPC]

Dialog ==
    [display |-> dialogDisplay, chatInput |-> chatInputDisplay,
     name |-> dialogName, message |-> dialogMessage, current |-> currentNPC]

SetDialog(d) ==
    /\ dialogDisplay' = d.display
    /\ chatInputDisplay' = d.chatInput
    /\ dialogName' = d.name
    /\ dialogMessage' = d.message
    /\ currentNPC' = d.current

----------------------------------------------------------------------------
(* Challenge state machine, as functions of the slice                     *)
(* g = [challenges, activeChallenge, dialog] of the state                 *)

Game == [challenges |-> challenges, activeChallenge |-> activeChallenge,
         dialog |-> Dialog]

AllStepsCompleted(ch) == \A i \in StepIndexes : ch.steps[i]

\* Math.random() makes showDialog nondeterministic, so each operation below
\* gives the SET of slices it can end in.

\* showDialog(obj) from slice g
ThenShowDialog(g, obj) ==
    { [g EXCEPT !.dialog = ShowDialog(obj, k)] : k \in Draws(obj) }

\* Variant of UpdateChallengeProgress with a seeded fault: the last step
\* clears the active challenge without setting its completed flag
UpdateChallengeProgressForgetsFlag(g, stepIndex) ==
    LET a == g.activeChallenge IN
    IF a # Null /\ ~g.challenges[a].steps[stepIndex]
    THEN LET marked == [g.challenges EXCEPT ![a].steps[stepIndex] = TRUE] IN
         IF AllStepsCompleted(marked[a])
         THEN ThenShowDialog(
                [g EXCEPT !.challenges = marked, !.activeChallenge = Null],
                Literal("Challenge Complete!", <<WellDoneNotice>>))
         ELSE { [g EXCEPT !.challenges = marked] }
    ELSE {g}

\* Variant of UpdateChallengeProgress with a seeded fault: the step flag is
\* flipped whatever it was
UpdateChallengeProgressFlips(g, stepIndex) ==
    LET a == g.activeChallenge IN
    IF a # Null
    THEN LET marked == [g.challenges EXCEPT
                            ![a].steps[stepIndex] = ~g.challenges[a].steps[stepIndex]]
         IN
         IF AllStepsCompleted(marked[a])
         THEN ThenShowDialog(
                [g EXCEPT !.challenges = [marked EXCEPT ![a].completed = TRUE],
                          !.activeChallenge = Null],
                Literal("Challenge Complete!", <<WellDoneNotice>>))
         ELSE { [g EXCEPT !.challenges = marked] }
    ELSE {g}

\* updateChallengeProgress(stepIndex)
UpdateChallengeProgress(g, stepIndex) ==
    LET a == g.activeChallenge IN
    IF a # Null /\ ~g.challenges[a].steps[stepIndex]
    THEN LET marked == [g.challenges EXCEPT ![a].steps[stepIndex] = TRUE] IN
         IF AllStepsCompleted(marked[a])
         THEN ThenShowDialog(
                [g EXCEPT !.challenges = [marked EXCEPT ![a].completed = TRUE],
                          !.activeChallenge = Null],
                Literal("Challenge Complete!", <<WellDoneNotice>>))
         ELSE { [g EXCEPT !.challenges = marked] }
    ELSE {g}

\* completeChallenge()
CompleteChallenge(g) ==
    LET a == g.activeChallenge IN
    IF a = Null THEN {g}
    ELSE { [h EXCEPT !.challenges = [@ EXCEPT ![a].completed = TRUE],
                     !.activeChallenge = Null] :
           h \in ThenShowDialog(g,
                    Literal("Challenge Complete!", <<Reward(a)>>)) }

NearBench(pos) ==
    \E obj \in SceneChildren :
        obj.isBench /\ DistanceLess(pos, obj.pos, BenchDistance)
NearDepartmentStore(pos) ==
    \E obj \in SceneChildren :
        obj.isDepartmentStore
            /\ DistanceLess(pos, obj.pos, DepartmentStoreDistance)
NearCar(pos) == DistanceLess(pos, CarPosition, NearCarDistance)
InCityCenter(pos) == DistanceLess(pos, CityCenter, CityCenterDistance)


\* checkChallengeProgress, case 1: Find Teddy
CheckFindTeddy(g, npcName, pos) ==
    LET challenge == g.challenges[g.activeChallenge] IN
    IF npcName = "Mrs. Wicket" /\ ~challenge.steps[0]
    THEN UpdateChallengeProgress(g, 0)
    ELSE IF challenge.steps[0] /\ ~challenge.steps[1]
    THEN IF NearBench(pos)
         THEN UNION { ThenShowDialog(h, Literal("Mr. Bean",
                        <<"Aha! There's a note here... 'Your Teddy is at the department store.'">>)) :
                      h \in UpdateChallengeProgress(g, 1) }
         ELSE {g}
    ELSE IF challenge.steps[1] /\ ~challenge.steps[2]
    THEN IF NearDepartmentStore(pos)
         THEN UNION { CompleteChallenge(h) :
                      h \in UpdateChallengeProgress(g, 2) }
         ELSE {g}
    ELSE {g}

\* Variant of CheckLateForAppointment with a seeded fault: the Rupert test comes first, so that
\* it no longer depends on step 0
CheckLateForAppointmentRupertFirst(g, npcName, pos) ==
    LET challenge == g.challenges[g.activeChallenge] IN
    IF npcName = "Rupert" /\ ~challenge.steps[1]
    THEN UpdateChallengeProgress(g, 1)
    ELSE IF ~challenge.steps[0]
    THEN IF NearCar(pos) THEN UpdateChallengeProgress(g, 0) ELSE {g}
    ELSE IF challenge.steps[1] /\ ~challenge.steps[2]
    THEN IF InCityCenter(pos)
         THEN UNION { CompleteChallenge(h) :
                      h \in UpdateChallengeProgress(g, 2) }
         ELSE {g}
    ELSE {g}

\* checkChallengeProgress, case 2: Late for Appointment
CheckLateForAppointment(g, npcName, pos) ==
    LET challenge == g.challenges[g.activeChallenge] IN
    IF ~challenge.steps[0]
    THEN IF NearCar(pos)
         THEN UNION { ThenShowDialog(h, Literal("Mr. Bean",
                        <<"Oh no! The car won't start! Maybe Rupert can help...">>)) :
                      h \in UpdateChallengeProgress(g, 0) }
         ELSE {g}
    ELSE IF npcName = "Rupert" /\ ~challenge.steps[1]
    THEN UNION { ThenShowDialog(h, Literal("Rupert",
                    <<"*Sigh* Fine, Bean. The clinic is in the city center, near the department store.">>)) :
                 h \in UpdateChallengeProgress(g, 1) }
    ELSE IF challenge.steps[1] /\ ~challenge.steps[2]
    THEN IF InCityCenter(pos)
         THEN UNION { CompleteChallenge(h) :
                      h \in UpdateChallengeProgress(g, 2) }
         ELSE {g}
    ELSE {g}

\* checkChallengeProgress, case 3: Christmas Shopping
CheckChristmasShopping(g, npcName, pos) ==
    LET challenge == g.challenges[g.activeChallenge] IN
    IF npcName = "Irma Gobb" /\ ~challenge.steps[0]
    THEN UNION { ThenShowDialog(h, Literal("Irma",
                    <<"Oh, Mr. Bean! I do love that teddy bear in the department store window...">>)) :
                 h \in UpdateChallengeProgress(g, 0) }
    ELSE IF challenge.steps[0] /\ ~challenge.steps[1]
    THEN IF NearDepartmentStore(pos)
         THEN UNION { ThenShowDialog(h, Literal("Store Clerk",
                        <<"The teddy bears are on sale today! Perfect timing!">>)) :
                      h \in UpdateChallengeProgress(g, 1) }
         ELSE {g}
    ELSE IF challenge.steps[1] /\ ~challenge.steps[2]
    THEN IF npcName = "Store Clerk"
         THEN UNION { CompleteChallenge(h) :
                      h \in UpdateChallengeProgress(g, 2) }
         ELSE {g}
    ELSE {g}

\* checkChallengeProgress(npc), the player standing at pos
CheckChallengeProgress(g, npc, pos) ==
    IF g.activeChallenge = Null \/ ~HasUserData(npc.npc) THEN {g}
    ELSE CASE g.activeChallenge = 1 -> CheckFindTeddy(g, npc.name, pos)
           [] g.activeChallenge = 2 -> CheckLateForAppointment(g, npc.name, pos)
           [] g.activeChallenge = 3 -> CheckChristmasShopping(g, npc.name, pos)
           [] OTHER -> {g}

\* Variant of StartChallengeOutcomes with a seeded fault: a switch keeps the old challenge's steps
StartChallengeKeepsProgress(g, challengeId) ==
    IF ~g.challenges[challengeId].completed
    THEN ThenShowDialog([g EXCEPT !.activeChallenge = challengeId],
            Literal("New Challenge", <<Description(challengeId)>>))
    ELSE ThenShowDialog(g,
            Literal("Challenge Complete", <<AlreadyCompletedNotice>>))

\* Variant of StartChallengeOutcomes with a seeded fault: the completed flag is not tested
StartChallengeIgnoresCompleted(g, challengeId) ==
    LET a == g.activeChallenge
        reset == IF a # Null /\ a # challengeId
                 THEN [g.challenges EXCEPT
                           ![a].steps = [i \in StepIndexes |-> FALSE]]
                 ELSE g.challenges
    IN  ThenShowDialog(
            [g EXCEPT !.challenges = reset, !.activeChallenge = challengeId],
            Literal("New Challenge", <<Description(challengeId)>>))

\* Variant of StartChallengeOutcomes with a seeded fault: a completed challenge becomes active
StartChallengeReactivates(g, challengeId) ==
    LET a == g.activeChallenge
        reset == IF a # Null /\ a # challengeId
                 THEN [g.challenges EXCEPT
                           ![a].steps = [i \in StepIndexes |-> FALSE]]
                 ELSE g.challenges
    IN  IF ~g.challenges[challengeId].completed
        THEN ThenShowDialog(
                [g EXCEPT !.challenges = reset, !.activeChallenge = challengeId],
                Literal("New Challenge", <<Description(challengeId)>>))
        ELSE ThenShowDialog([g EXCEPT !.activeChallenge = challengeId],
                Literal("Challenge Complete", <<AlreadyCompletedNotice>>))

\* Variant of StartChallengeOutcomes with a seeded fault: a switch clears
\* the steps of the challenge being started, not of the one left
StartChallengeResetsNew(g, challengeId) ==
    IF challengeId \notin ChallengeIds THEN {g}
    ELSE IF ~g.challenges[challengeId].completed
    THEN LET a == g.activeChallenge
             reset == IF a # Null /\ a # challengeId
                      THEN [g.challenges EXCEPT
                                ![challengeId].steps =
                                    [i \in StepIndexes |-> FALSE]]
                      ELSE g.challenges
         IN  ThenShowDialog(
                [g EXCEPT !.challenges = reset, !.activeChallenge = challengeId],
                Literal("New Challenge", <<Description(challengeId)>>))
    ELSE ThenShowDialog(g,
            Literal("Challenge Complete", <<AlreadyCompletedNotice>>))

\* startChallenge(challengeId): the slices it can end in
StartChallengeOutcomes(g, challengeId) ==
    IF challengeId \notin ChallengeIds THEN {g}
    ELSE IF ~g.challenges[challengeId].completed
    THEN LET a == g.activeChallenge
             reset == IF a # Null /\ a # challengeId
                      THEN [g.challenges EXCEPT
                                ![a].steps = [i \in StepIndexes |-> FALSE]]
                      ELSE g.challenges
         IN  ThenShowDialog(
                [g EXCEPT !.challenges = reset, !.activeChallenge = challengeId],
                Literal("New Challenge", <<Description(challengeId)>>))
    ELSE ThenShowDialog(g,
            Literal("Challenge Complete", <<AlreadyCompletedNotice>>))

----------------------------------------------------------------------------
(* NPC wander AI (updateNPCsWithCulling) *)

\* (Math.random() - 0.5) * Math.PI / 2 lies in [-45, 45) degrees: -1, 0, +1
\* eighths of a turn; 0 also stands for the 98% of calls that draw no turn.
Perturbations == {-1, 0, 1}

Advance(pos, dir, speed) ==
    << pos[1] + MulMilli(speed, CosMilli(dir)),
       pos[2] + MulMilli(speed, SinMilli(dir)) >>

\* Variant of UpdateMainNPC with a seeded fault: the step is taken whatever the distance
UpdateMainNPCUntethered(n, pos, dir, speed, turn) ==
    [pos |-> Advance(pos, (dir + turn) % 8, speed), dir |-> (dir + turn) % 8]

\* one main-cast NPC, lines 2142-2160
UpdateMainNPC(n, pos, dir, speed, turn) ==
    LET turned == (dir + turn) % 8
        newPosition == Advance(pos, turned, speed)
    IN  IF DistanceLess(newPosition, OriginalPosition(n), MaxWanderDistance)
        THEN [pos |-> newPosition, dir |-> turned]
        ELSE [pos |-> pos,
              dir |-> Atan2Oct(OriginalPosition(n)[2] - pos[2],
                               OriginalPosition(n)[1] - pos[1])]

\* one background NPC, lines 2168-2180
UpdateBackgroundNPC(pos, dir, speed, turn) ==
    LET moved == Advance(pos, dir, speed)
        turned == (dir + turn) % 8
    IN  IF Abs(moved[1]) > SoftBoundary * Milli
            \/ Abs(moved[2]) > SoftBoundary * Milli
        THEN [pos |-> moved, dir |-> (turned + 4) % 8]
        ELSE [pos |-> moved, dir |-> turned]

InUpdateRange(n) == DistanceLessEq(npcPos[n], playerPos, CullDistance)

UpdateNPCsWithCulling ==
    /\ npcTicks' = npcTicks + 1
    /\ \E turn \in [{n \in NPCs : InUpdateRange(n)} -> Perturbations] :
        LET after(n) ==
                IF ~InUpdateRange(n)
                THEN [pos |-> npcPos[n], dir |-> walkDirection[n]]
                ELSE IF n \in MainNPCs
                THEN UpdateMainNPC(n, npcPos[n], walkDirection[n],
                                   userDataWalkSpeed[n], turn[n])
                ELSE UpdateBackgroundNPC(npcPos[n], walkDirection[n],
                                         walkSpeed[n], turn[n])
        IN  /\ npcPos' = [n \in NPCs |-> after(n).pos]
            /\ walkDirection' = [n \in NPCs |-> after(n).dir]
            /\ rotationY' = [n \in NPCs |->
                                IF InUpdateRange(n) THEN after(n).dir
                                ELSE rotationY[n]]
    /\ calls' = Append(calls, "updateNPCsWithCulling")
    /\ UNCHANGED <<frameVars, camera, trees, playerTicks, canMove,
                   challengeVars, dialogVars, playerPos, userDataWalkSpeed,
                   walkSpeed, constructedSpeed, timers, playerRotation,
                   doorVars, startupVars, engaged, handled>>

----------------------------------------------------------------------------
(* The 'e' key handler of setupInteraction *)

NpcOrder == MainOrder \o BackgroundOrder

\* The two forEach scans: the first NPC, in scan order, at the least distance
RECURSIVE ClosestFrom(_, _, _, _)
ClosestFrom(i, best, pos, positions) ==
    IF i > Len(NpcOrder) THEN best
    ELSE LET n == NpcOrder[i] IN
         IF best = "" \/ PairLess(DistSq(pos, positions[n]),
                                  DistSq(pos, positions[best]))
         THEN ClosestFrom(i + 1, n, pos, positions)
         ELSE ClosestFrom(i + 1, best, pos, positions)

ClosestNPC(pos, positions) == ClosestFrom(1, "", pos, positions)

\* Variant of NpcInRange with a seeded fault: no NPC is ever in range
NpcInRangeNever(n) == n # n

\* closestNPC && closestDistance < this.interactionDistance
NpcInRange(n) ==
    n # "" /\ DistanceLess(playerPos, npcPos[n], InteractionDistance)

\* The speed the handler saves and later restores
SavedSpeed(n) ==
    IF HasUserData(n) THEN userDataWalkSpeed[n] ELSE walkSpeed[n]

\* The assignment of a walk speed v to NPC n (lines 2249-2253, 2261-2265)
SetSpeed(n, v) ==
    IF HasUserData(n)
    THEN /\ userDataWalkSpeed' = [userDataWalkSpeed EXCEPT ![n] = v]
         /\ UNCHANGED walkSpeed
    ELSE /\ walkSpeed' = [walkSpeed EXCEPT ![n] = v]
         /\ UNCHANGED userDataWalkSpeed

SetGame(g) ==
    /\ challenges' = g.challenges
    /\ activeChallenge' = g.activeChallenge
    /\ SetDialog(g.dialog)

\* The scene.traverse scan: the first door, in traversal order, at the
\* least distance
RECURSIVE ClosestDoorFrom(_, _, _)
ClosestDoorFrom(i, best, pos) ==
    IF i > Len(DoorOrder) THEN best
    ELSE LET d == DoorOrder[i] IN
         IF best = "" \/ PairLess(DistSq(pos, DoorWorldPos(d)),
                                  DistSq(pos, DoorWorldPos(best)))
         THEN ClosestDoorFrom(i + 1, d, pos)
         ELSE ClosestDoorFrom(i + 1, best, pos)

ClosestInteractable(pos) == ClosestDoorFrom(1, "", pos)

\* Variant of DoorInRange with a seeded fault: the nearest door is in
\* range wherever the player stands
DoorInRangeAlways(d) == d # ""

\* closestInteractable && closestInteractableDistance < interactionDistance
DoorInRange(d) ==
    d # "" /\ DistanceLess(playerPos, DoorWorldPos(d), InteractionDistance)

\* Variant of Toggled with a seeded fault: a door never closes again
ToggledSticky(isOpen) == isOpen \/ ~isOpen

\* doorData.isOpen = !doorData.isOpen
Toggled(isOpen) == ~isOpen

\* showInteractionMessage(name, message) applied to dialogue record d: the
\* chat input and this.currentNPC are left as they are
ShowInteractionMessage(d, name, message) ==
    [d EXCEPT !.name = name, !.message = message, !.display = TRUE]

\* The 'e' key handler: the NPC branch, else the door branch, else nothing.
Interact ==
    LET closestNPC == ClosestNPC(playerPos, npcPos)
        closestInteractable == ClosestInteractable(playerPos)
    IN
    IF NpcInRange(closestNPC)
    THEN /\ rotationY' = [rotationY EXCEPT ![closestNPC] =
                Atan2Oct(playerPos[1] - npcPos[closestNPC][1],
                         playerPos[2] - npcPos[closestNPC][2])]
         /\ SetSpeed(closestNPC, 0)
         /\ timers' = Append(timers, [npc |-> closestNPC,
                                      currentSpeed |-> SavedSpeed(closestNPC),
                                      delay |-> FreezeDelay])
         /\ \E shown \in ThenShowDialog(Game, NpcObject(closestNPC)) :
              \E g \in CheckChallengeProgress(shown, NpcObject(closestNPC),
                                              playerPos) :
                 SetGame(g)
         /\ engaged' = closestNPC
         /\ handled' = "npc"
         /\ UNCHANGED <<frameVars, calls, camera, trees, playerTicks, canMove, playerPos, playerRotation, npcPos, walkDirection,
                        npcTicks, constructedSpeed, discarded, doorVars,
                        startupVars>>
    ELSE IF DoorInRange(closestInteractable)
    THEN LET d == closestInteractable IN
         /\ SetDialog(ShowInteractionMessage(Dialog, DoorType(d),
                IF doorIsOpen[d] THEN "Closing door..."
                ELSE "Opening door..."))
         /\ timers' = Append(timers, [npc |-> "", currentSpeed |-> Undefined,
                                      delay |-> MessageDelay])
         /\ doorIsOpen' = [doorIsOpen EXCEPT ![d] = Toggled(doorIsOpen[d])]
         /\ animations' = Append(animations,
                [door |-> d, start |-> doorRotation[d],
                 target |-> IF Toggled(doorIsOpen[d]) THEN DoorOpenAngle
                            ELSE 0])
         /\ handled' = "door"
         /\ UNCHANGED <<frameVars, calls, camera, trees, playerTicks, canMove, challengeVars, playerPos, playerRotation, npcVars,
                        npcTicks, doorRotation, finishedStart, startupVars,
                        engaged>>
    ELSE /\ handled' = "none"
         /\ UNCHANGED <<frameVars, calls, camera, trees, playerTicks, canMove, challengeVars, dialogVars, playerPos, playerRotation,
                        npcVars, timers, npcTicks, doorVars, startupVars,
                        engaged>>

\* NPC n has a freeze callback among the pending ones
Frozen(n, pending) == \E i \in DOMAIN pending : pending[i].npc = n

\* A pending callback may run once no callback scheduled before it with a
\* delay that is not longer is still pending.
MayFire(i) ==
    /\ i \in 1..Len(timers)
    /\ \A j \in 1..(i - 1) : timers[j].delay > timers[i].delay

Remove(seq, i) == SubSeq(seq, 1, i - 1) \o SubSeq(seq, i + 1, Len(seq))

\* A setTimeout callback: that of the NPC branch (lines 2259-2266), which
\* hides the dialogue and restores the speed it saved, or that of
\* showInteractionMessage, which only hides the dialogue
TimerFire ==
    \E i \in 1..Len(timers) :
        /\ MayFire(i)
        /\ SetDialog(HideDialog(Dialog))
        /\ IF timers[i].npc # ""
           THEN SetSpeed(timers[i].npc, timers[i].currentSpeed)
           ELSE UNCHANGED <<userDataWalkSpeed, walkSpeed>>
        /\ timers' = Remove(timers, i)
        /\ engaged' = ""
        /\ UNCHANGED <<frameVars, calls, camera, trees, playerTicks, canMove, challengeVars, playerPos, playerRotation, npcPos,
                       walkDirection, rotationY, npcTicks, constructedSpeed,
                       doorVars, startupVars, handled>>

----------------------------------------------------------------------------
(* Free-text chat (handlePlayerMessage).  A message is the sequence of its *)
(* characters.                                                             *)

UpperLetters == <<"A", "B", "C", "D", "E", "F", "G", "H", "I", "J", "K", "L", "M", "N", "O", "P", "Q", "R", "S", "T", "U", "V", "W", "X", "Y", "Z">>
LowerLetters == <<"a", "b", "c", "d", "e", "f", "g", "h", "i", "j", "k", "l", "m", "n", "o", "p", "q", "r", "s", "t", "u", "v", "w", "x", "y", "z">>

\* String.prototype.toLowerCase, character by character
LowerChar(c) ==
    IF \E i \in DOMAIN UpperLetters : UpperLetters[i] = c
    THEN LowerLetters[CHOOSE i \in DOMAIN UpperLetters : UpperLetters[i] = c]
    ELSE c
ToLowerCase(message) == [i \in DOMAIN message |-> LowerChar(message[i])]

\* String.prototype.includes
Includes(message, keyword) ==
    \E i \in 0..(Len(message) - Len(keyword)) :
        SubSeq(message, i + 1, i + Len(keyword)) = keyword

\* String.prototype.trim
RECURSIVE TrimStart(_)
TrimStart(message) ==
    IF message # << >> /\ Head(message) = " " THEN TrimStart(Tail(message))
    ELSE message
RECURSIVE TrimEnd(_)
TrimEnd(message) ==
    IF message # << >> /\ message[Len(message)] = " "
    THEN TrimEnd(SubSeq(message, 1, Len(message) - 1))
    ELSE message
Trim(message) == TrimEnd(TrimStart(message))

GetMrsWicketResponse(message) ==
    IF Includes(message, <<"r", "e", "n", "t">>)
    THEN "Yes, yes, the rent! It's due on Friday, don't forget!"
    ELSE IF Includes(message, <<"c", "a", "t">>) \/ Includes(message, <<"s", "c", "r", "a", "p", "p", "e", "r">>)
    THEN "Oh, have you seen my Scrapper? He's such a dear cat. Though he doesn't seem to like you much, Mr. Bean!"
    ELSE IF Includes(message, <<"n", "o", "i", "s", "e">>) \/ Includes(message, <<"l", "o", "u", "d">>)
    THEN "The noise from your flat is absolutely dreadful! What are you doing up there?"
    ELSE IF Includes(message, <<"h", "e", "l", "l", "o">>) \/ Includes(message, <<"h", "i">>)
    THEN "Good day, Mr. Bean. I hope you're not planning any of your usual shenanigans."
    ELSE IF Includes(message, <<"s", "o", "r", "r", "y">>)
    THEN "Well, just try to be more careful next time, Mr. Bean."
    ELSE "Hmph! Just make sure you keep the noise down and pay your rent on time!"

\* Variant of GetIrmaResponse with a seeded fault: 'teddy' is tested
\* before 'date'
GetIrmaResponseTeddyFirst(message) ==
    IF Includes(message, <<"t", "e", "d", "d", "y">>)
    THEN "That teddy bear of yours... Sometimes I think you love it more than me!"
    ELSE IF Includes(message, <<"d", "a", "t", "e">>)
    THEN "Oh, Mr. Bean! I thought you'd never ask. Shall we go to the restaurant?"
    ELSE IF Includes(message, <<"h", "e", "l", "l", "o">>) \/ Includes(message, <<"h", "i">>)
    THEN "Hello, Mr. Bean! I was just thinking about you!"
    ELSE IF Includes(message, <<"g", "i", "f", "t">>) \/ Includes(message, <<"p", "r", "e", "s", "e", "n", "t">>)
    THEN "You remembered! Though last time you gave me a picture of yourself..."
    ELSE IF Includes(message, <<"l", "o", "v", "e">>)
    THEN "Oh, Mr. Bean... *blushes* You're sweet when you want to be."
    ELSE "We should go on another date soon, Mr. Bean!"

GetIrmaResponse(message) ==
    IF Includes(message, <<"d", "a", "t", "e">>)
    THEN "Oh, Mr. Bean! I thought you'd never ask. Shall we go to the restaurant?"
    ELSE IF Includes(message, <<"t", "e", "d", "d", "y">>)
    THEN "That teddy bear of yours... Sometimes I think you love it more than me!"
    ELSE IF Includes(message, <<"h", "e", "l", "l", "o">>) \/ Includes(message, <<"h", "i">>)
    THEN "Hello, Mr. Bean! I was just thinking about you!"
    ELSE IF Includes(message, <<"g", "i", "f", "t">>) \/ Includes(message, <<"p", "r", "e", "s", "e", "n", "t">>)
    THEN "You remembered! Though last time you gave me a picture of yourself..."
    ELSE IF Includes(message, <<"l", "o", "v", "e">>)
    THEN "Oh, Mr. Bean... *blushes* You're sweet when you want to be."
    ELSE "We should go on another date soon, Mr. Bean!"

GetRupertResponse(message) ==
    IF Includes(message, <<"n", "o", "i", "s", "e">>)
    THEN "You're making too much noise again, Bean! I'm trying to get some peace and quiet!"
    ELSE IF Includes(message, <<"g", "a", "r", "d", "e", "n">>)
    THEN "Stay away from my garden, Bean! I saw what you did to my flowers last time!"
    ELSE IF Includes(message, <<"h", "e", "l", "l", "o">>) \/ Includes(message, <<"h", "i">>)
    THEN "What do you want now, Bean?"
    ELSE IF Includes(message, <<"s", "o", "r", "r", "y">>)
    THEN "Hmph! You're always sorry after the fact, aren't you?"
    ELSE "Just keep your distance, Bean. I'm watching you!"

GetGenericResponse(message) ==
    IF Includes(message, <<"h", "e", "l", "l", "o">>) \/ Includes(message, <<"h", "i">>)
    THEN "Hello! Lovely day, isn't it?"
    ELSE IF Includes(message, <<"w", "e", "a", "t", "h", "e", "r">>)
    THEN "Yes, typical British weather we're having!"
    ELSE IF Includes(message, <<"b", "e", "a", "n">>)
    THEN "Oh, you know Mr. Bean? Quite a peculiar fellow, isn't he?"
    ELSE IF Includes(message, <<"s", "h", "o", "p">>) \/ Includes(message, <<"s", "t", "o", "r", "e">>)
    THEN "The shops around here are quite nice. Have you tried the new cafe?"
    ELSE IF Includes(message, <<"c", "a", "r">>)
    THEN "That green Mini is always causing chaos around here!"
    ELSE "Oh, how interesting! Do tell me more about that."

\* handlePlayerMessage(message, npc): the text it puts in the dialogue
HandlePlayerMessage(message, npc) ==
    LET lowered == ToLowerCase(message) IN
    IF npc.isMainNPC
    THEN CASE npc.name = "Mrs. Wicket" -> GetMrsWicketResponse(lowered)
           [] npc.name = "Irma Gobb"   -> GetIrmaResponse(lowered)
           [] npc.name = "Rupert"      -> GetRupertResponse(lowered)
           [] OTHER                    -> GetGenericResponse(lowered)
    ELSE GetGenericResponse(lowered)

\* What the player types before Enter: a line naming a keyword with a
\* capital letter, and a line of blanks
ChatInputs == { <<"D", "a", "t", "e">>, <<" ", " ">> }

\* The chat input's keypress handler on Enter (createDialogElement)
ChatMessage(value) ==
    /\ currentNPC # NoNPC
    /\ Trim(value) # << >>
    /\ dialogMessage' = HandlePlayerMessage(Trim(value), currentNPC)
    /\ UNCHANGED <<frameVars, calls, camera, trees, playerTicks, canMove, challengeVars, playerPos, playerRotation, npcVars, timers,
                   npcTicks, dialogDisplay, chatInputDisplay, dialogName,
                   currentNPC, doorVars, startupVars, engaged, handled>>

----------------------------------------------------------------------------
(* Challenge menu click: challengeItem.onclick *)

HasProgress(ch) == \E i \in StepIndexes : ch.steps[i]

StartChallenge(challengeId) ==
    /\ \E g \in StartChallengeOutcomes(Game, challengeId) : SetGame(g)
    /\ discarded' =
         IF /\ ~challenges[challengeId].completed
            /\ activeChallenge \notin {Null, challengeId}
            /\ HasProgress(challenges[activeChallenge])
         THEN activeChallenge
         ELSE discarded
    /\ engaged' = ""
    /\ UNCHANGED <<frameVars, calls, camera, trees, playerTicks, canMove, playerPos, playerRotation, npcVars, timers, npcTicks,
                   doorVars, startupVars, handled>>

----------------------------------------------------------------------------
(* The player walking *)

\* Places the player walks to (each a run of updatePlayer frames): the
\* start beside the car, Rupert's anchor, the department store front, open
\* ground beside the background NPC, and open ground with nobody near.
PlayerSpots ==
    { PlayerStart, <<-34000, -31000>>, <<27000, -27000>>,
      <<5000, -10000>>, <<0, -50000>> }

MovePlayer(spot) ==
    /\ spot # playerPos
    /\ playerPos' = spot
    /\ camera' = CameraBehind(spot, playerRotation)
    /\ UNCHANGED <<frameVars, calls, trees, playerTicks, canMove, challengeVars, dialogVars, npcVars, timers, npcTicks,
                   playerRotation, doorVars, startupVars, engaged, handled>>

----------------------------------------------------------------------------
(* Player movement: updatePlayer.  Headings are kept on the grid of eight  *)
(* the NPCs use; a turn key moves the heading one grid step where the code *)
(* adds turnSpeed.  Every box starts at y = 0 and the player stands at     *)
(* y = 0 with a box from -0.9 to 0.9, so the boxes always overlap in y and *)
(* only x and z are kept.                                                  *)

MoveSpeedMilli == 250           \* this.moveSpeed = 0.25
MaxDistance == 95               \* const maxDistance = 95
PlayerHalfSize == 200           \* half of playerSize.x = playerSize.z = 0.4
NumTrees == 15                  \* for (let i = 0; i < 15; i++)

\* storeConfigs[i].position, copied to storeGroup.position
StorePositions == << <<20000, -20000>>, <<-20000, 20000>>, <<20000, 20000>> >>
\* storeGroup.collider: width = depth = 8 about the origin
StoreCollider == [min |-> <<-4000, -4000>>, max |-> <<4000, 4000>>]
\* houseGroup.collider
HouseCollider == [min |-> <<-3000, -3000>>, max |-> <<3000, 3000>>]
\* benchPositions
BenchPositions ==
    << <<-15000, -15000>>, <<15000, -15000>>, <<-15000, 15000>>,
       <<15000, 15000>>, <<0, 0>>, <<-15000, 0>>, <<15000, 0>>,
       <<0, -15000>>, <<0, 15000>> >>

\* Box3.translate
Translate(box, offset) ==
    [min |-> <<box.min[1] + offset[1], box.min[2] + offset[2]>>,
     max |-> <<box.max[1] + offset[1], box.max[2] + offset[2]>>]

\* The bench's and the tree's box about their own origin
BenchLocalBox == [min |-> <<-1000, -300>>, max |-> <<1000, 300>>]
TreeLocalBox == [min |-> <<-400, -400>>, max |-> <<400, 400>>]

\* bench.collider: built around pos already
BenchCollider(pos) == Translate(BenchLocalBox, pos)
\* tree.collider after createPark's tree.collider.translate(position)
TreeCollider(pos) == Translate(TreeLocalBox, pos)

\* Two plantings (Math.random() - 0.5) * 35 can give
ParkTrees ==
    << <<5000, 2500>>, <<3500, -7500>>, <<8000, -14000>>, <<-12500, 17000>>,
       <<-11000, 6000>>, <<-13500, 15000>>, <<-3500, -15000>>, <<-11500, 10500>>,
       <<9500, -13000>>, <<-2000, -11500>>, <<10000, -13500>>, <<-9500, -3000>>,
       <<-13500, 8000>>, <<-14000, -3000>>, <<-14500, -8500>> >>
ParkTreesOther ==
    << <<-12500, 7500>>, <<1500, 9500>>, <<-8000, -9500>>, <<2500, -5500>>,
       <<-10500, -5000>>, <<6500, -11000>>, <<-13000, -13500>>, <<-4000, 14500>>,
       <<17000, 10000>>, <<3000, 12500>>, <<12000, 6000>>, <<2000, -1500>>,
       <<-5500, -1500>>, <<-12000, 2000>>, <<16500, 14500>> >>
TreeScenes == {ParkTrees, ParkTreesOther}

\* Box3.intersectsBox: touching boxes intersect
IntersectsBox(a, b) ==
    ~(\/ b.max[1] < a.min[1] \/ b.min[1] > a.max[1]
      \/ b.max[2] < a.min[2] \/ b.min[2] > a.max[2])

\* playerBox.setFromCenterAndSize(nextPosition, playerSize)
PlayerBox(center) ==
    [min |-> <<center[1] - PlayerHalfSize, center[2] - PlayerHalfSize>>,
     max |-> <<center[1] + PlayerHalfSize, center[2] + PlayerHalfSize>>]

\* The boxes updatePlayer tests: store.collider.clone().translate(
\* store.position) for this.stores, then, for every object of the scene
\* with a collider that is no store, object.collider.clone().translate(
\* object.position) with the object's position inside its group.
StoreBoxes ==
    {Translate(StoreCollider, StorePositions[i]) : i \in DOMAIN StorePositions}
TraversedBoxes(treePositions) ==
    {Translate(HouseCollider, HousePosition(d)) : d \in Doors}
        \cup {Translate(BenchCollider(BenchPositions[i]), BenchPositions[i]) :
                  i \in DOMAIN BenchPositions}
        \cup {Translate(TreeCollider(treePositions[i]), treePositions[i]) :
                  i \in 1..NumTrees}
TestedBoxes(treePositions) == StoreBoxes \cup TraversedBoxes(treePositions)

\* Every object carrying a collider: its box about its own origin, its
\* position, and the box updatePlayer ends up testing for it
ColliderObjects(treePositions) ==
    {[kind |-> "store", local |-> StoreCollider,
      position |-> StorePositions[i],
      tested |-> Translate(StoreCollider, StorePositions[i])] :
        i \in DOMAIN StorePositions}
    \cup {[kind |-> "house", local |-> HouseCollider,
           position |-> HousePosition(d),
           tested |-> Translate(HouseCollider, HousePosition(d))] :
             d \in Doors}
    \cup {[kind |-> "bench", local |-> BenchLocalBox,
           position |-> BenchPositions[i],
           tested |-> Translate(BenchCollider(BenchPositions[i]),
                                BenchPositions[i])] :
             i \in DOMAIN BenchPositions}
    \cup {[kind |-> "tree", local |-> TreeLocalBox,
           position |-> treePositions[i],
           tested |-> Translate(TreeCollider(treePositions[i]),
                                treePositions[i])] :
             i \in 1..NumTrees}

\* Variant of CanMoveTo with a seeded fault: the stores do not block
CanMoveToPastStores(nextPosition, treePositions) ==
    \A box \in TraversedBoxes(treePositions) :
        ~IntersectsBox(box, PlayerBox(nextPosition))

\* Variant of CanMoveTo with a seeded fault: only the stores block
CanMoveToStoresOnly(nextPosition, treePositions) ==
    \A box \in StoreBoxes : ~IntersectsBox(box, PlayerBox(nextPosition))

\* canMove after both collision loops
CanMoveTo(nextPosition, treePositions) ==
    /\ \A box \in StoreBoxes : ~IntersectsBox(box, PlayerBox(nextPosition))
    /\ \A box \in TraversedBoxes(treePositions) :
          ~IntersectsBox(box, PlayerBox(nextPosition))

\* Variant of Clamped with a seeded fault: the world square is not enforced
ClampedNot(v) == v

\* Math.max(-maxDistance, Math.min(maxDistance, v))
Clamped(v) ==
    IF v > MaxDistance * Milli THEN MaxDistance * Milli
    ELSE IF v < -MaxDistance * Milli THEN -MaxDistance * Milli
    ELSE v

\* this.keys as far as updatePlayer reads it
KeyStates == [w : BOOLEAN, a : BOOLEAN, s : BOOLEAN, d : BOOLEAN]

\* player.rotation.y after the turn keys
Turned(rotation, keys) ==
    (rotation + (IF keys.a THEN 1 ELSE 0) + (IF keys.d THEN 7 ELSE 0)) % 8

\* nextPosition: playerVelocity (0, 0, +-moveSpeed) turned about the y axis
\* by the new heading, added to the position
NextPosition(pos, rotation, keys) ==
    LET z == IF keys.s THEN -MoveSpeedMilli
             ELSE IF keys.w THEN MoveSpeedMilli ELSE 0
    IN  << pos[1] + MulMilli(z, SinMilli(rotation)),
           pos[2] + MulMilli(z, CosMilli(rotation)) >>

UpdatePlayer(keys) ==
    LET rotation == Turned(playerRotation, keys)
        nextPosition == NextPosition(playerPos, rotation, keys)
        free == CanMoveTo(nextPosition, trees)
        position == IF free THEN nextPosition ELSE playerPos
    IN
    /\ playerRotation' = rotation
    /\ playerPos' = <<Clamped(position[1]), Clamped(position[2])>>
    /\ canMove' = free
    /\ playerTicks' = playerTicks + 1
    /\ camera' = UpdateCamera(camera, playerPos', rotation)
    /\ calls' = Append(calls, "updatePlayer")
    /\ UNCHANGED <<frameVars, trees, challengeVars, dialogVars, npcVars, timers, npcTicks,
                   doorVars, startupVars, engaged, handled>>

----------------------------------------------------------------------------
(* Initial states *)

HiddenDialog ==
    /\ dialogDisplay = FALSE
    /\ chatInputDisplay = FALSE
    /\ dialogName = ""
    /\ dialogMessage = ""
    /\ currentNPC = NoNPC

\* initialize() has run to its end: the frame loop is started
Started ==
    /\ phase = "running"
    /\ containerExists = TRUE
    /\ errorVisible = FALSE

\* The player as createPlayer leaves it and the park as one run of
\* createPark plants it
Unmoved ==
    /\ playerRotation = 0
    /\ trees = ParkTrees

\* What construction fixes whatever the NPCs' places and headings
InitCommon ==
    /\ challenges = InitialChallenges
    /\ activeChallenge = Null
    /\ discarded = Null
    /\ userDataWalkSpeed =
         [n \in NPCs |-> IF n \in MainNPCs THEN MainWalkSpeedMilli
                         ELSE Undefined]
    /\ constructedSpeed =
         [n \in NPCs |-> IF n \in MainNPCs THEN MainWalkSpeedMilli
                         ELSE walkSpeed[n]]
    /\ timers = << >>
    /\ HiddenDialog
    /\ npcTicks = 0
    /\ rotationY = [n \in NPCs |-> 0]
    /\ playerTicks = 0
    /\ canMove = TRUE
    /\ doorIsOpen = [d \in Doors |-> FALSE]
    /\ doorRotation = [d \in Doors |-> 0]
    /\ finishedStart = [d \in Doors |-> Undefined]
    /\ animations = << >>
    /\ engaged = ""
    /\ handled = ""
    /\ calls = << >>
    /\ frameCount = 0
    /\ frustum = NewFrustum
    /\ visible = [o \in SceneObjects |-> TRUE]

\* Spec: the challenge machine, the dialogue and the interaction handler.
\* The NPCs stand where their wandering has taken them (the wander AI is
\* left to SpecNPC): Mrs. Wicket beside the car, Irma towards the
\* department store, Rupert at his anchor, the background NPC on open ground.
\* The player presses 'e' beside an NPC only once that NPC's earlier freeze
\* callback has run; overlapping freezes of one NPC are explored in SpecNPC.
QuestPositions ==
    [n \in NPCs |->
        CASE n = "Mrs. Wicket" -> <<-39000, -29000>>
          [] n = "Irma Gobb"   -> <<26000, -26000>>
          [] n = "Rupert"      -> OriginalPosition("Rupert")
          [] OTHER             -> <<5000, -9000>>]

Init ==
    /\ walkSpeed = [n \in NPCs |-> IF n \in MainNPCs THEN Undefined ELSE 30]
    /\ InitCommon
    /\ Started
    /\ Unmoved
    /\ playerPos = PlayerStart
    /\ npcPos = QuestPositions
    /\ walkDirection = [n \in NPCs |-> 0]
    /\ camera = CameraBehind(playerPos, playerRotation)

Next ==
    \/ \E c \in ChallengeIds : StartChallenge(c)
    \/ \E spot \in PlayerSpots : MovePlayer(spot)
    \/ (/\ Len(timers) < MaxQuestTimers
        /\ ~Frozen(ClosestNPC(playerPos, npcPos), timers)
        /\ Interact)
    \/ TimerFire
    \/ \E value \in ChatInputs : ChatMessage(value)

Spec == Init /\ [][Next]_vars

----------------------------------------------------------------------------
(* SpecNPC: the wander AI with the interaction freeze.  The player stands  *)
(* near Irma Gobb; Mrs. Wicket and Rupert are further than CullDistance.   *)

\* createNPC: (Math.random() - 0.5) * 80 on each axis;
\* setupNPCs: walkSpeed = 0.02 + Math.random() * 0.02
BackgroundSpeeds == {20, 30}

\* Two moments of the running game.  In the first Irma walks at her anchor
\* and the background NPC is the one nearest the player; in the second Irma
\* is one step inside the edge of her wander radius, heading outwards, and
\* the background NPC walks out over the soft boundary.
NPCScenes ==
    { [player |-> <<25000, -24000>>,
       irma |-> OriginalPosition("Irma Gobb"), irmaDir |-> 3,
       background |-> <<25000, -23500>>, backgroundDir |-> 6,
       backgroundSpeed |-> 20],
      [player |-> <<29000, -25000>>,
       irma |-> <<29990, -25000>>, irmaDir |-> 0,
       background |-> <<39990, -24000>>, backgroundDir |-> 0,
       backgroundSpeed |-> 30] }

InitNPC ==
    /\ \E scene \in NPCScenes :
        /\ scene.backgroundSpeed \in BackgroundSpeeds
        /\ walkSpeed = [n \in NPCs |->
                        IF n \in MainNPCs THEN Undefined
                        ELSE scene.backgroundSpeed]
        /\ playerPos = scene.player
        /\ npcPos = [n \in NPCs |->
                        IF n = "Irma Gobb" THEN scene.irma
                        ELSE IF n \in MainNPCs THEN OriginalPosition(n)
                        ELSE scene.background]
        /\ walkDirection = [n \in NPCs |->
                        IF n = "Irma Gobb" THEN scene.irmaDir
                        ELSE IF n \in MainNPCs THEN 0
                        ELSE scene.backgroundDir]
    /\ InitCommon
    /\ Started
    /\ Unmoved
    /\ camera = CameraBehind(playerPos, playerRotation)

NextNPC ==
    \/ (npcTicks < MaxTicks /\ UpdateNPCsWithCulling)
    \/ (Len(timers) < MaxTimers /\ Interact)
    \/ TimerFire

SpecNPC == InitNPC /\ [][NextNPC]_vars

----------------------------------------------------------------------------
(* animateDoor: the requestAnimationFrame loop of one swing *)

\* startRotation + (targetRotation - startRotation) * easeProgress while
\* progress < 1
Eased(start, target) == IF start = target THEN start ELSE DoorAjar

\* Variant of AnimateDoorFrame with a seeded fault: the swings may finish
\* in any order
AnimateDoorFrameAnyOrder(i) ==
    /\ i \in 1..Len(animations)
    /\ LET swing == animations[i] IN
       \/ /\ doorRotation' = [doorRotation EXCEPT ![swing.door] =
                                  Eased(swing.start, swing.target)]
          /\ UNCHANGED <<animations, finishedStart>>
       \/ /\ doorRotation' = [doorRotation EXCEPT ![swing.door] = swing.target]
          /\ animations' = Remove(animations, i)
          /\ finishedStart' =
                IF swing.start \in {0, DoorOpenAngle} THEN finishedStart
                ELSE [finishedStart EXCEPT ![swing.door] = swing.start]
    /\ UNCHANGED <<frameVars, calls, camera, trees, playerTicks, canMove, challengeVars, dialogVars, playerPos, playerRotation,
                   npcVars, timers, npcTicks, doorIsOpen, startupVars,
                   engaged, handled>>

\* One animation frame of running swing i.  Every swing lasts
\* AnimationDuration, so the one started first is the first to reach
\* progress = 1, where it writes its target and stops.
AnimateDoorFrame(i) ==
    /\ i \in 1..Len(animations)
    /\ LET swing == animations[i] IN
       \/ /\ doorRotation' = [doorRotation EXCEPT ![swing.door] =
                                  Eased(swing.start, swing.target)]
          /\ UNCHANGED <<animations, finishedStart>>
       \/ /\ i = 1
          /\ doorRotation' = [doorRotation EXCEPT ![swing.door] = swing.target]
          /\ animations' = Tail(animations)
          /\ finishedStart' =
                IF swing.start \in {0, DoorOpenAngle} THEN finishedStart
                ELSE [finishedStart EXCEPT ![swing.door] = swing.start]
    /\ UNCHANGED <<frameVars, calls, camera, trees, playerTicks, canMove, challengeVars, dialogVars, playerPos, playerRotation,
                   npcVars, timers, npcTicks, doorIsOpen, startupVars,
                   engaged, handled>>

----------------------------------------------------------------------------
(* SpecWander: the wander AI alone, nobody pressing 'e'.  The background   *)
(* NPC starts inside the soft boundary, a step or less from its east edge, *)
(* walking east or north-east, with the player in update range.            *)

WanderScenes ==
    { [player |-> <<29000, -25000>>,
       irma |-> OriginalPosition("Irma Gobb"), irmaDir |-> 0,
       background |-> <<39995, -24000>>, backgroundDir |-> 0,
       backgroundSpeed |-> 30],
      [player |-> <<29000, -25000>>,
       irma |-> OriginalPosition("Irma Gobb"), irmaDir |-> 0,
       background |-> <<39980, -24000>>, backgroundDir |-> 1,
       backgroundSpeed |-> 20] }

InitWander ==
    /\ \E scene \in WanderScenes :
        /\ scene.backgroundSpeed \in BackgroundSpeeds
        /\ walkSpeed = [n \in NPCs |->
                        IF n \in MainNPCs THEN Undefined
                        ELSE scene.backgroundSpeed]
        /\ playerPos = scene.player
        /\ npcPos = [n \in NPCs |->
                        IF n = "Irma Gobb" THEN scene.irma
                        ELSE IF n \in MainNPCs THEN OriginalPosition(n)
                        ELSE scene.background]
        /\ walkDirection = [n \in NPCs |->
                        IF n = "Irma Gobb" THEN scene.irmaDir
                        ELSE IF n \in MainNPCs THEN 0
                        ELSE scene.backgroundDir]
    /\ InitCommon
    /\ Started
    /\ Unmoved
    /\ camera = CameraBehind(playerPos, playerRotation)

NextWander == npcTicks < MaxWanderTicks /\ UpdateNPCsWithCulling

SpecWander == InitWander /\ [][NextWander]_vars

----------------------------------------------------------------------------
(* SpecDoor: the 'e' key among the doors of Arbour Road.  The handler     *)
(* measures doors at DoorWorldPos; the background NPC walks beside the     *)
(* point it measures for the first house.  As in Spec, 'e' is pressed     *)
(* only once the nearest NPC's earlier freeze callback has run.            *)

\* In front of the first door with the background NPC at hand, in front of
\* the second door with nobody near, beside Rupert, and on open ground.
DoorSpots ==
    { <<0, 4500>>, <<8000, 4500>>, <<-34000, -31000>>, <<4000, 12000>> }

DoorScenePositions ==
    [n \in NPCs |-> IF n \in MainNPCs THEN OriginalPosition(n)
                    ELSE <<1000, 4500>>]

InitDoor ==
    /\ walkSpeed = [n \in NPCs |-> IF n \in MainNPCs THEN Undefined ELSE 30]
    /\ InitCommon
    /\ Started
    /\ Unmoved
    /\ playerPos = <<-34000, -31000>>
    /\ npcPos = DoorScenePositions
    /\ walkDirection = [n \in NPCs |-> 0]
    /\ camera = CameraBehind(playerPos, playerRotation)

NextDoor ==
    \/ \E spot \in DoorSpots : MovePlayer(spot)
    \/ (/\ Len(timers) < MaxTimers
        /\ Len(animations) < MaxAnimations
        /\ ~Frozen(ClosestNPC(playerPos, npcPos), timers)
        /\ Interact)
    \/ TimerFire
    \/ \E i \in 1..Len(animations) : AnimateDoorFrame(i)

SpecDoor == InitDoor /\ [][NextDoor]_vars

----------------------------------------------------------------------------
(* SpecPlayer: updatePlayer alone, from places a walk from the spawn point *)
(* leads to: the spawn point, the east edge and the south-west corner of   *)
(* the world square, and the open ground beside a tested house, store,     *)
(* bench and tree box.                                                     *)

PlayerStarts ==
    { [position |-> PlayerStart, rotation |-> 0],
      [position |-> <<94900, 0>>, rotation |-> 2],
      [position |-> <<-94750, -94750>>, rotation |-> 5],
      [position |-> <<0, 3500>>, rotation |-> 4],
      [position |-> <<15500, -20000>>, rotation |-> 2],
      [position |-> <<-30000, -30750>>, rotation |-> 0],
      [position |-> <<10000, 5750>>, rotation |-> 4] }

InitPlayer ==
    /\ walkSpeed = [n \in NPCs |-> IF n \in MainNPCs THEN Undefined ELSE 30]
    /\ InitCommon
    /\ Started
    /\ trees \in TreeScenes
    /\ \E start \in PlayerStarts :
          /\ playerPos = start.position
          /\ playerRotation = start.rotation
    /\ npcPos = QuestPositions
    /\ walkDirection = [n \in NPCs |-> 0]
    /\ camera = CameraBehind(playerPos, playerRotation)

NextPlayer ==
    \E keys \in KeyStates : playerTicks < MaxPlayerTicks /\ UpdatePlayer(keys)

SpecPlayer == InitPlayer /\ [][NextPlayer]_vars

----------------------------------------------------------------------------
(* SpecStartup: initialize() itself, then the game of Spec.  Before        *)
(* initialize() has run the fields of the game hold nothing; they are      *)
(* given here the values initialize() assigns.                             *)

\* initialize(): anything thrown in the try block, the missing container
\* included, ends in the catch block, which writes its message into the
\* container if there is one; otherwise animate() is called.
Initialize ==
    /\ phase = "loading"
    /\ \E throws \in BOOLEAN :
          IF throws \/ ~containerExists
          THEN /\ phase' = "failed"
               /\ errorVisible' = containerExists
          ELSE /\ phase' = "running"
               /\ errorVisible' = FALSE
    /\ UNCHANGED <<frameVars, calls, camera, trees, playerTicks, canMove, challengeVars, dialogVars, playerPos, playerRotation,
                   npcVars, timers, npcTicks, doorVars, containerExists,
                   engaged, handled>>

InitStartup ==
    /\ walkSpeed = [n \in NPCs |-> IF n \in MainNPCs THEN Undefined ELSE 30]
    /\ InitCommon
    /\ Unmoved
    /\ phase = "loading"
    /\ containerExists \in BOOLEAN
    /\ errorVisible = FALSE
    /\ playerPos = PlayerStart
    /\ npcPos = QuestPositions
    /\ walkDirection = [n \in NPCs |-> 0]
    /\ camera = CameraBehind(playerPos, playerRotation)

NextStartup ==
    \/ Initialize
    \/ (phase = "running" /\ Next)

SpecStartup == InitStartup /\ [][NextStartup]_vars

----------------------------------------------------------------------------
(* SpecFrame: the frame loop, animate(), one call of it after the other.   *)
(* The calls animate() makes are separate steps, taken in the order of its *)
(* body; `calls` records those made so far in the running frame.           *)

MaxFrames == 2

\* The first statements of animate(): the frustum is set from the camera as
\* the previous frame left it
SetFrustum ==
    /\ frustum' = SetFromProjectionMatrix(camera)
    /\ calls' = Append(calls, "setFromProjectionMatrix")
    /\ UNCHANGED <<frameCount, visible, camera, trees, playerTicks, canMove,
                   challengeVars, dialogVars, playerPos, playerRotation,
                   npcVars, timers, npcTicks, doorVars, startupVars, engaged,
                   handled>>

\* updateVisibility(): the traversal sets the flag of every object it treats
UpdateVisibility ==
    /\ visible' = [o \in SceneObjects |->
                      VisibleAfter(o, visible[o], playerPos, camera, frustum,
                                   npcPos)]
    /\ calls' = Append(calls, "updateVisibility")
    /\ UNCHANGED <<frameCount, frustum, camera, trees, playerTicks, canMove,
                   challengeVars, dialogVars, playerPos, playerRotation,
                   npcVars, timers, npcTicks, doorVars, startupVars, engaged,
                   handled>>

\* The end of animate(): the frame is counted and the next one requested
RequestFrame ==
    /\ frameCount' = frameCount + 1
    /\ calls' = << >>
    /\ UNCHANGED <<frustum, visible, camera, trees, playerTicks, canMove,
                   challengeVars, dialogVars, playerPos, playerRotation,
                   npcVars, timers, npcTicks, doorVars, startupVars, engaged,
                   handled>>

LastCall == IF calls = << >> THEN "" ELSE calls[Len(calls)]

\* The keys held during a frame: none, forward, forward while turning left,
\* and backward
FrameKeys ==
    { [w |-> FALSE, a |-> FALSE, s |-> FALSE, d |-> FALSE],
      [w |-> TRUE, a |-> FALSE, s |-> FALSE, d |-> FALSE],
      [w |-> TRUE, a |-> TRUE, s |-> FALSE, d |-> FALSE],
      [w |-> FALSE, a |-> FALSE, s |-> TRUE, d |-> FALSE] }

\* Two moments of the running game: the player at the spawn point with the
\* NPCs about, and the player south of the town, more than 60 units from
\* the world's origin, with the background NPC in view.
FrameScenes ==
    { [player |-> PlayerStart, background |-> <<-36000, -20000>>],
      [player |-> <<0, -70000>>, background |-> <<3000, -39000>>] }

InitFrame ==
    /\ walkSpeed = [n \in NPCs |-> IF n \in MainNPCs THEN Undefined ELSE 30]
    /\ InitCommon
    /\ Started
    /\ Unmoved
    /\ \E scene \in FrameScenes :
          /\ playerPos = scene.player
          /\ npcPos = [n \in NPCs |->
                          IF n \in MainNPCs THEN OriginalPosition(n)
                          ELSE scene.background]
    /\ walkDirection = [n \in NPCs |-> 0]
    /\ camera = CameraBehind(playerPos, playerRotation)

\* animate(), statement by statement
NextFrame ==
    \/ (frameCount < MaxFrames /\ calls = << >> /\ SetFrustum)
    \/ (/\ LastCall = "setFromProjectionMatrix"
        /\ \E keys \in FrameKeys : UpdatePlayer(keys))
    \/ (/\ LastCall = "updatePlayer"
        /\ frameCount % 2 = 0
        /\ UpdateNPCsWithCulling)
    \/ (/\ \/ LastCall = "updateNPCsWithCulling"
           \/ (LastCall = "updatePlayer" /\ frameCount % 2 # 0)
        /\ UpdateVisibility)
    \/ (LastCall = "updateVisibility" /\ RequestFrame)

SpecFrame == InitFrame /\ [][NextFrame]_vars

----------------------------------------------------------------------------
(* Properties *)

StepMarked(c, i) == ~challenges[c].steps[i] /\ challenges'[c].steps[i]
Completes(c) == ~challenges[c].completed /\ challenges'[c].completed

\* C1: no step marks step N of a challenge completed while step N-1 of that
\* challenge is incomplete.
C1_StepOrdering ==
    [][\A c \in ChallengeIds : \A i \in StepIndexes \ {0} :
          StepMarked(c, i) => challenges[c].steps[i - 1]]_vars

\* Steps 0 and 1 of the active challenge were completed, step 2 is pending.
C1_Witness ==
    /\ activeChallenge # Null
    /\ challenges[activeChallenge].steps[0]
    /\ challenges[activeChallenge].steps[1]
    /\ ~challenges[activeChallenge].steps[2]

\* C2: the step in which a challenge becomes completed leaves that
\* challenge's reward message on display.
C2_RewardDisplayed ==
    [][\A c \in ChallengeIds :
          Completes(c) => (dialogDisplay' /\ dialogMessage' = Reward(c))]_vars

\* Anywhere the player can stand: the modelled places and the position of
\* every scene object
AnyPlace == PlayerSpots \cup {obj.pos : obj \in SceneChildren}

\* Some NPC talk somewhere in the world advances the active challenge
CanAdvance ==
    \E pos \in AnyPlace : \E n \in NPCs :
        \E g \in CheckChallengeProgress(Game, NpcObject(n), pos) :
            g.challenges # challenges

\* C3: every challenge can be completed.  Steps complete one at a time and
\* in order, so this requires that whenever a challenge is active some NPC
\* interaction possible in the world completes its next step.
C3_EveryChallengeCompletable == (activeChallenge # Null) => CanAdvance

\* Find Teddy needs a bench and Christmas Shopping a "Store Clerk": the world
\* holds neither, so these two challenges are never completed.
BenchlessNeverCompleted ==
    ~challenges[1].completed /\ ~challenges[3].completed

\* The speed the NPC's update moves it by
WalkSpeedOf(n) == IF n \in MainNPCs THEN userDataWalkSpeed[n] ELSE walkSpeed[n]

\* C4: once every pending freeze timer has fired, every NPC walks at the
\* speed it had before it was first interacted with.
C4_SpeedRestored ==
    (timers = << >>) => \A n \in NPCs : WalkSpeedOf(n) = constructedSpeed[n]

\* C5: a background NPC whose freeze timer is pending does not move.
C5_BackgroundFrozen ==
    [][\A b \in BackgroundNPCs :
          (Frozen(b, timers) /\ Frozen(b, timers')) => npcPos'[b] = npcPos[b]]_vars

\* C6: startChallenge(id) displays the challenge's description, or the
\* 'already completed' notice when the challenge is completed.
C6_StartDialogText ==
    [][\A c \in ChallengeIds :
          StartChallenge(c) =>
              dialogMessage' = IF challenges[c].completed
                               THEN AlreadyCompletedNotice
                               ELSE Description(c)]_vars

\* C7: every main-cast NPC is within maxWanderDistance of its anchor.
C7_WanderRadius ==
    \A m \in MainNPCs :
        DistanceLessEq(npcPos[m], OriginalPosition(m), MaxWanderDistance)

\* Irma, never interacted with, was refused the step that leaves her wander
\* radius and turned back towards her anchor.
C7_Witness ==
    /\ npcTicks > 0
    /\ dialogName = ""
    /\ npcPos["Irma Gobb"] = <<29990, -25000>>
    /\ walkDirection["Irma Gobb"] = 4

\* C8: starting a not-completed challenge B while another challenge A is
\* active leaves every step of A incomplete, B active and A.completed as
\* it was.
C8_ChallengeSwitch ==
    [][\A b \in ChallengeIds :
          (/\ activeChallenge \notin {Null, b}
           /\ ~challenges[b].completed
           /\ StartChallenge(b))
          => /\ \A i \in StepIndexes : ~challenges'[activeChallenge].steps[i]
             /\ activeChallenge' = b
             /\ challenges'[activeChallenge].completed
                    = challenges[activeChallenge].completed]_vars

\* A switch has discarded the progress of a challenge; another is active.
C8_Witness ==
    /\ discarded # Null
    /\ activeChallenge \notin {Null, discarded}
    /\ currentNPC.name = "New Challenge"
    /\ \A i \in StepIndexes : ~challenges[discarded].steps[i]

\* C9: a completed challenge has all its steps completed, and a completed
\* flag never goes back to false.
C9_CompletedSound ==
    /\ [](\A c \in ChallengeIds :
            challenges[c].completed => AllStepsCompleted(challenges[c]))
    /\ [][\A c \in ChallengeIds :
            challenges[c].completed => challenges'[c].completed]_vars

\* A challenge was completed and another one was started afterwards.
C9_Witness ==
    /\ \E c \in ChallengeIds : challenges[c].completed
    /\ activeChallenge # Null

\* C10: startChallenge on a completed challenge changes no challenge state,
\* and the active challenge is never a completed one.
C10_CompletedNotRestarted ==
    /\ [][\A c \in ChallengeIds :
            (challenges[c].completed /\ StartChallenge(c))
            => (activeChallenge' = activeChallenge /\ challenges' = challenges)]_vars
    /\ [](activeChallenge # Null => ~challenges[activeChallenge].completed)

\* startChallenge was called on a completed challenge.
C10_Witness ==
    /\ currentNPC = Literal("Challenge Complete", <<AlreadyCompletedNotice>>)
    /\ \E c \in ChallengeIds : challenges[c].completed

\* C11: the step that completes the last incomplete step of the active
\* challenge leaves that challenge completed and no challenge active.
C11_CompletionClearsActive ==
    [][\A c \in ChallengeIds :
          (/\ activeChallenge = c
           /\ ~AllStepsCompleted(challenges[c])
           /\ AllStepsCompleted(challenges'[c]))
          => (challenges'[c].completed /\ activeChallenge' = Null)]_vars

\* The last step of a challenge has just been completed.
C11_Witness ==
    /\ activeChallenge = Null
    /\ \E c \in ChallengeIds :
          AllStepsCompleted(challenges[c]) /\ challenges[c].completed
    /\ currentNPC = Literal("Challenge Complete!", <<WellDoneNotice>>)

\* C12: from the 'e' press beside main-cast NPC X until the dialogue is
\* dismissed or replaced, X is the chat focus and every submitted message
\* is answered from X's keyword table.
C12_ChatFollowsEngaged ==
    /\ [](engaged \in MainNPCs => currentNPC = NpcObject(engaged))
    /\ [][\A value \in ChatInputs :
            (engaged \in MainNPCs /\ ChatMessage(value))
            => dialogMessage'
                 = HandlePlayerMessage(Trim(value), NpcObject(engaged))]_vars

\* The nearest NPC, and the nearest door, is closer than the interaction
\* radius
NpcNear ==
    \E n \in NPCs :
        /\ n = ClosestNPC(playerPos, npcPos)
        /\ DistanceLess(playerPos, npcPos[n], InteractionDistance)
DoorNear ==
    \E d \in Doors :
        /\ d = ClosestInteractable(playerPos)
        /\ DistanceLess(playerPos, DoorWorldPos(d), InteractionDistance)

\* C13: every run of hideDialog leaves no NPC in focus and the NPC the
\* dialogue was opened for at the walk speed it had before it was frozen.
C13_DismissalRestores ==
    [][TimerFire =>
          /\ currentNPC' = NoNPC
          /\ engaged # "" =>
                userDataWalkSpeed'[engaged] =
                    IF engaged \in MainNPCs THEN MainWalkSpeedMilli
                    ELSE Undefined]_vars

\* C17: with an NPC and a door both within the interaction radius, the 'e'
\* press takes the NPC branch only: no door flag changes, no swing starts.
C17_NpcPriority ==
    [][(Interact /\ NpcNear /\ DoorNear)
          => /\ handled' = "npc"
             /\ doorIsOpen' = doorIsOpen
             /\ animations' = animations
             /\ doorRotation' = doorRotation]_vars

\* The player stands where the background NPC and the first door are both
\* in range, and the last 'e' press engaged the NPC.
C17_Witness ==
    /\ NpcNear /\ DoorNear
    /\ handled = "npc"
    /\ engaged = "npc0"
    /\ dialogDisplay

\* C18: with neither an NPC nor a door within the interaction radius, the
\* 'e' press changes no NPC speed or facing, no door, no dialogue state or
\* focus, no challenge state, and schedules no timer.
C18_OutOfRangeNoOp ==
    [][(Interact /\ ~NpcNear /\ ~DoorNear)
          => UNCHANGED <<challengeVars, dialogVars, npcVars, doorVars, timers,
                         engaged, playerPos>>]_vars

\* The last 'e' press was out of range of everything while a dialogue was
\* open, an NPC frozen and a timer pending.
C18_Witness ==
    /\ handled = "none"
    /\ ~NpcNear /\ ~DoorNear
    /\ dialogDisplay
    /\ timers # << >>
    /\ \E n \in MainNPCs : userDataWalkSpeed[n] = 0

\* C20: an 'e' press that reaches the door branch flips that door's isOpen
\* flag, leaves the other doors alone, and shows 'Opening door...' for a
\* closed door and 'Closing door...' for an open one.
C20_DoorToggle ==
    [][(Interact /\ ~NpcNear /\ DoorNear)
          => LET d == ClosestInteractable(playerPos) IN
             /\ doorIsOpen'[d] = ~doorIsOpen[d]
             /\ \A o \in Doors \ {d} : doorIsOpen'[o] = doorIsOpen[o]
             /\ dialogDisplay'
             /\ dialogName' = DoorType(d)
             /\ dialogMessage' = IF doorIsOpen[d] THEN "Closing door..."
                                  ELSE "Opening door..."]_vars

\* A door was opened and, by the next press, closed again.
C20_Witness ==
    /\ handled = "door"
    /\ dialogDisplay
    /\ dialogMessage = "Closing door..."
    /\ \A d \in Doors : ~doorIsOpen[d]

\* C14: when initialize() has run without a 'game-container' element, an
\* error message is visible and the frame loop was not started.
C14_MissingMountPoint ==
    (~containerExists /\ phase # "loading")
        => (errorVisible /\ phase # "running")

\* Without the container the frame loop is never started
NoContainerNoFrames == ~containerExists => phase # "running"

\* Reference for C19: each character's replies as an ordered table of
\* keyword sets with a default line, read first match first.
ReferenceTable(identity) ==
    CASE identity = "Mrs. Wicket" -> <<
        [keywords |-> {<<"r", "e", "n", "t">>},
         response |-> "Yes, yes, the rent! It's due on Friday, don't forget!"],
        [keywords |-> {<<"c", "a", "t">>, <<"s", "c", "r", "a", "p", "p", "e", "r">>},
         response |-> "Oh, have you seen my Scrapper? He's such a dear cat. Though he doesn't seem to like you much, Mr. Bean!"],
        [keywords |-> {<<"n", "o", "i", "s", "e">>, <<"l", "o", "u", "d">>},
         response |-> "The noise from your flat is absolutely dreadful! What are you doing up there?"],
        [keywords |-> {<<"h", "e", "l", "l", "o">>, <<"h", "i">>},
         response |-> "Good day, Mr. Bean. I hope you're not planning any of your usual shenanigans."],
        [keywords |-> {<<"s", "o", "r", "r", "y">>},
         response |-> "Well, just try to be more careful next time, Mr. Bean."] >>
      [] identity = "Irma Gobb" -> <<
        [keywords |-> {<<"d", "a", "t", "e">>},
         response |-> "Oh, Mr. Bean! I thought you'd never ask. Shall we go to the restaurant?"],
        [keywords |-> {<<"t", "e", "d", "d", "y">>},
         response |-> "That teddy bear of yours... Sometimes I think you love it more than me!"],
        [keywords |-> {<<"h", "e", "l", "l", "o">>, <<"h", "i">>},
         response |-> "Hello, Mr. Bean! I was just thinking about you!"],
        [keywords |-> {<<"g", "i", "f", "t">>, <<"p", "r", "e", "s", "e", "n", "t">>},
         response |-> "You remembered! Though last time you gave me a picture of yourself..."],
        [keywords |-> {<<"l", "o", "v", "e">>},
         response |-> "Oh, Mr. Bean... *blushes* You're sweet when you want to be."] >>
      [] identity = "Rupert" -> <<
        [keywords |-> {<<"n", "o", "i", "s", "e">>},
         response |-> "You're making too much noise again, Bean! I'm trying to get some peace and quiet!"],
        [keywords |-> {<<"g", "a", "r", "d", "e", "n">>},
         response |-> "Stay away from my garden, Bean! I saw what you did to my flowers last time!"],
        [keywords |-> {<<"h", "e", "l", "l", "o">>, <<"h", "i">>},
         response |-> "What do you want now, Bean?"],
        [keywords |-> {<<"s", "o", "r", "r", "y">>},
         response |-> "Hmph! You're always sorry after the fact, aren't you?"] >>
      [] OTHER -> <<
        [keywords |-> {<<"h", "e", "l", "l", "o">>, <<"h", "i">>},
         response |-> "Hello! Lovely day, isn't it?"],
        [keywords |-> {<<"w", "e", "a", "t", "h", "e", "r">>},
         response |-> "Yes, typical British weather we're having!"],
        [keywords |-> {<<"b", "e", "a", "n">>},
         response |-> "Oh, you know Mr. Bean? Quite a peculiar fellow, isn't he?"],
        [keywords |-> {<<"s", "h", "o", "p">>, <<"s", "t", "o", "r", "e">>},
         response |-> "The shops around here are quite nice. Have you tried the new cafe?"],
        [keywords |-> {<<"c", "a", "r">>},
         response |-> "That green Mini is always causing chaos around here!"] >>
ReferenceDefault(identity) ==
    CASE identity = "Mrs. Wicket" -> "Hmph! Just make sure you keep the noise down and pay your rent on time!"
      [] identity = "Irma Gobb" -> "We should go on another date soon, Mr. Bean!"
      [] identity = "Rupert" -> "Just keep your distance, Bean. I'm watching you!"
      [] OTHER -> "Oh, how interesting! Do tell me more about that."
RECURSIVE FirstMatch(_, _, _)
FirstMatch(table, lowered, default) ==
    IF table = << >> THEN default
    ELSE IF \E keyword \in Head(table).keywords : Includes(lowered, keyword)
    THEN Head(table).response
    ELSE FirstMatch(Tail(table), lowered, default)
ReferenceRespond(npc, input) ==
    LET identity == IF npc.isMainNPC THEN npc.name ELSE ""
    IN FirstMatch(ReferenceTable(identity), ToLowerCase(input),
                  ReferenceDefault(identity))

\* The characters the chat can be focused on: every NPC of the scene and
\* the object literals the quest dialogues are shown with
ChatIdentities ==
    {NpcObject(n) : n \in NPCs}
        \cup {Literal("Mr. Bean", << >>), Literal("Store Clerk", << >>)}

\* Inputs: the empty line, a line with no keyword, a capitalised keyword,
\* a keyword inside another word, and lines naming two keywords of one
\* table in either order
TestMessages ==
    { << >>, <<"x", "y", "z">>, <<"D", "a", "t", "e">>, <<"t", "h", "i", "s">>, <<"t", "e", "d", "d", "y", " ", "d", "a", "t", "e">>, <<"d", "a", "t", "e", " ", "t", "e", "d", "d", "y">>, <<"S", "O", "R", "R", "Y", " ", "r", "e", "n", "t">>, <<"g", "a", "r", "d", "e", "n", " ", "n", "o", "i", "s", "e">>, <<"c", "a", "r", " ", "s", "h", "o", "p">>, <<"m", "y", " ", "p", "r", "e", "s", "e", "n", "t", ",", " ", "l", "o", "v", "e">>, <<"L", "o", "u", "d", " ", "C", "a", "t">> }

\* C19: for every character and every input the reply is the one the
\* reference gives (input lower-cased, table order, first match, default
\* line otherwise) and is not empty; the Enter handler displays that reply.
C19_RespondMatchesReference ==
    /\ \A npc \in ChatIdentities : \A input \in TestMessages :
          /\ HandlePlayerMessage(input, npc) = ReferenceRespond(npc, input)
          /\ HandlePlayerMessage(input, npc) # ""
    /\ [][\A value \in ChatInputs :
            ChatMessage(value) =>
                /\ dialogMessage' = ReferenceRespond(currentNPC, Trim(value))
                /\ dialogMessage' # ""]_vars

\* Irma Gobb has answered a typed line naming 'date'
C19_Witness ==
    /\ currentNPC.name = "Irma Gobb"
    /\ currentNPC.isMainNPC
    /\ dialogMessage = "Oh, Mr. Bean! I thought you'd never ask. Shall we go to the restaurant?"

\* C15: whenever the footprint box at the proposed next position intersects
\* the box updatePlayer tests for some collider, the update leaves the
\* player's position as it was.
C15_CollisionRejects ==
    [][\A keys \in KeyStates :
         UpdatePlayer(keys) =>
            ((\E box \in TestedBoxes(trees) :
                 IntersectsBox(box,
                     PlayerBox(NextPosition(playerPos, playerRotation', keys))))
                => playerPos' = playerPos)]_vars

\* A move into the tested box of the grocery store was rejected
C15_Witness ==
    /\ playerTicks > 0
    /\ ~canMove
    /\ playerPos = <<15750, -20000>>

\* C16: after every updatePlayer call the player's x and z lie in
\* [-95, 95].
C16_WithinWorldSquare ==
    playerTicks > 0 =>
        /\ Abs(playerPos[1]) <= MaxDistance * Milli
        /\ Abs(playerPos[2]) <= MaxDistance * Milli

\* A step over the east edge was brought back onto it
C16_Witness ==
    /\ playerTicks > 0
    /\ canMove
    /\ playerPos = <<95000, 0>>

\* C21: from every reachable state, a second updateChallengeProgress(i)
\* right after a first leaves the step flags, the completed flags and the
\* active challenge as the first left them; and no step of the game takes
\* a completed flag back from true to false.
C21_StepIdempotent ==
    /\ [](\A stepIndex \in StepIndexes :
            \A once \in UpdateChallengeProgress(Game, stepIndex) :
                \A twice \in UpdateChallengeProgress(once, stepIndex) :
                    /\ twice.challenges = once.challenges
                    /\ twice.activeChallenge = once.activeChallenge)
    /\ [][\A c \in ChallengeIds :
            challenges[c].completed => challenges'[c].completed]_vars

\* 'Late for Appointment' is under way with its first step marked and its
\* second open: a first call marks the second step, a second call finds it
\* marked.
C21_Witness ==
    /\ activeChallenge = 2
    /\ challenges[2].steps[0]
    /\ ~challenges[2].steps[1]
    /\ ~challenges[2].completed

\* C28: a challenge that is neither the active one nor completed has no
\* step marked.
C28_ProgressOnlyOnActive ==
    \A c \in ChallengeIds :
        (c # activeChallenge /\ ~challenges[c].completed)
            => \A i \in StepIndexes : ~challenges[c].steps[i]

\* 'Late for Appointment' had a step marked, and the player then switched
\* to 'Find Teddy'.
C28_Witness ==
    /\ discarded = 2
    /\ activeChallenge = 1
    /\ ~challenges[2].completed
    /\ \A i \in StepIndexes : ~challenges[2].steps[i]

\* C25: while the dialogue opened by the last 'e' press beside an NPC is on
\* display, the only callback that runs is the one that press scheduled:
\* the latest pending callback of that NPC.
C25_OwnTimeoutOnly ==
    [][(TimerFire /\ engaged # "")
          => \E i \in 1..Len(timers) :
                /\ timers' = Remove(timers, i)
                /\ timers[i].npc = engaged
                /\ \A j \in (i + 1)..Len(timers) : timers[j].npc # engaged]_vars

\* C26: a background NPC that started inside the soft boundary is never
\* further than one step of its walk speed beyond it, in x or in z.
C26_BackgroundContained ==
    \A n \in BackgroundNPCs :
        /\ Abs(npcPos[n][1]) <= SoftBoundary * Milli + constructedSpeed[n]
        /\ Abs(npcPos[n][2]) <= SoftBoundary * Milli + constructedSpeed[n]

\* C29: a door with no swing running stands at PI / 2 if its isOpen flag
\* is true and at 0 if it is false, also after a toggle that came while an
\* earlier swing was still running.
C29_DoorSettles ==
    \A d \in Doors :
        (\A i \in 1..Len(animations) : animations[i].door # d)
            => doorRotation[d] = IF doorIsOpen[d] THEN DoorOpenAngle ELSE 0

\* The second door was closed again while its opening swing was running,
\* and both swings have finished.
C29_Witness ==
    /\ animations = << >>
    /\ finishedStart["bruiserHouse"] = DoorAjar
    /\ ~doorIsOpen["bruiserHouse"]
    /\ doorRotation["bruiserHouse"] = 0

\* C30: the player's footprint box, free of every tested box at the start,
\* intersects none of the boxes updatePlayer tests after any number of
\* updates.
C30_NeverInsideCollider ==
    \A box \in TestedBoxes(trees) : ~IntersectsBox(box, PlayerBox(playerPos))

\* The player walked up to the tested box of the first house and the step
\* into it was refused.
C30_Witness ==
    /\ playerTicks > 1
    /\ ~canMove
    /\ playerPos = <<0, 3250>>
    /\ playerRotation = 4

\* The registry lists exactly the boxes updatePlayer tests
RegistryIsTested ==
    TestedBoxes(trees) = {object.tested : object \in ColliderObjects(trees)}

\* Stores and houses are tested where their box moved once lies
StoresAndHousesTranslatedOnce ==
    \A object \in ColliderObjects(trees) :
        object.kind \in {"store", "house"}
            => object.tested = Translate(object.local, object.position)

\* C23: for every house, bench, tree and store, the box updatePlayer tests
\* is the object's box about its own origin moved once by the object's
\* position.
C23_TranslatedOnce ==
    /\ RegistryIsTested
    /\ \A object \in ColliderObjects(trees) :
          object.tested = Translate(object.local, object.position)

\* C27: while the chat input is on display, a keydown of 'e' starts no
\* interaction: it shows no new dialogue line, schedules no timer and leaves
\* every NPC's saved and current speed alone.  (Keydowns of w, a, s and d
\* reach the same window listeners: the keys they set are those
\* updatePlayer reads.)
C27_TypingIsolated ==
    [][(chatInputDisplay /\ Interact)
          => UNCHANGED <<timers, dialogName, dialogMessage,
                         userDataWalkSpeed, walkSpeed>>]_vars

\* Position of call `name` in the running frame's calls, 0 if not made yet
CallIndex(name) ==
    IF \E i \in DOMAIN calls : calls[i] = name
    THEN CHOOSE i \in DOMAIN calls : calls[i] = name
    ELSE 0

\* C22: within every frame of animate(), the player's movement and collision
\* resolution run before the visibility culling, and the visibility culling
\* runs before the NPC advancement.
C22_FrameOrder ==
    /\ (CallIndex("updateVisibility") # 0 /\ CallIndex("updatePlayer") # 0)
          => CallIndex("updatePlayer") < CallIndex("updateVisibility")
    /\ (CallIndex("updateNPCsWithCulling") # 0)
          => /\ CallIndex("updateVisibility") # 0
             /\ CallIndex("updateVisibility")
                   < CallIndex("updateNPCsWithCulling")

\* The part of the order the frame loop keeps: the player moves before the
\* culling
PlayerBeforeVisibility ==
    CallIndex("updateVisibility") # 0
        => /\ CallIndex("updatePlayer") # 0
           /\ CallIndex("updatePlayer") < CallIndex("updateVisibility")

\* The outcome of the rule list for object o, every distance measured from
\* where the object is in the world
RuleOutcome(o) ==
    LET at == WorldPosition(o, playerPos, npcPos)
        sphere == BoundingSphere(o, playerPos, npcPos)
    IN
    IF Distance3Less(at, Raised(camera.position, CameraHeight), NearThreshold)
    THEN TRUE
    ELSE IF Distance3Greater(at, Raised(playerPos, 0), FarThreshold)
    THEN FALSE
    ELSE IF IsBuilding(o) \/ ScaleLength(o) > LargeScale THEN TRUE
    ELSE IntersectsSphere(frustum,
            [sphere EXCEPT !.radius = MulMilli(sphere.radius, SphereFactor)])

\* C24: once updateVisibility has run, the visible flag of every mesh and
\* group other than the player is the outcome of the first matching rule:
\* nearer than 3 to the camera, visible; further than 60 from the player,
\* hidden; a building or large, visible; otherwise visible exactly if its
\* bounding sphere, widened by 1.2, meets the frustum.
C24_FirstMatchingRule ==
    LastCall = "updateVisibility"
        => \A o \in SceneObjects \ {"player"} :
              IsMeshOrGroup(o) => visible[o] = RuleOutcome(o)

\* For the top-level meshes and groups, whose position is their place in the
\* world, the flags are those of the rule list
TopLevelFollowRules ==
    LastCall = "updateVisibility"
        => \A o \in NPCs : visible[o] = RuleOutcome(o)

\* Mr. Bean's house is shown whenever the player is within 60 units of it
HouseShownWithinRange ==
    (/\ LastCall = "updateVisibility"
     /\ ~Distance3Greater(WorldPosition("beanHouse", playerPos, npcPos),
                          Raised(playerPos, 0), FarThreshold))
        => visible["beanHouse"]

\* The player's own torso is never hidden as too far from the player
TorsoFollowsRules ==
    LastCall = "updateVisibility" => visible["torso"] = RuleOutcome("torso")

\* The sun light keeps the flag it was made with
LightUntouched == visible["sunLight"]

====
